---- MODULE Spec2Model ----
(***************************************************************************)
(* pylex: regular expressions -> NFA (Thompson) -> DFA (Rabin-Scott)       *)
(* -> minimized DFA (DFA._hopcroft) -> scanner tables -> pylex() driver.   *)
(*                                                                         *)
(* Python objects are modelled by the order of their creation: the k-th    *)
(* NFAState / DFAState created for an automaton is the number k.  None     *)
(* (no accepting ID, the epsilon symbol, a missing dict entry) is -1.      *)
(* A symbol is its code point.                                             *)
(*                                                                         *)
(* Two attributes of the states are left out of the records: number, set   *)
(* by Automaton.__init__ and read only by print_graphviz, and the memo     *)
(* _epsilon_closure, which epsilon_closure() fills after the last          *)
(* add_transition of the pipeline and so always holds the value that       *)
(* epsilon_closure computes here.                                          *)
(***************************************************************************)
EXTENDS Integers, Sequences, FiniteSets, TLC

\* ---------------------------------------------------------------- bounds
\* Size of the alphabet of the model (the symbols are 0 .. NUM_SYMBOLS-1).
NUM_SYMBOLS == 2
\* Largest total number of AST nodes of a ruleset.
MaxNodes == 4
\* Longest input handed to the generated scanner.
MaxInput == 2
\* How many times minimized() is applied in a row.
MaxMinimize == 2
\* Longest regex text handed to the parser, and longest text after a '['.
MaxText == 4
MaxClass == 4
\* How many times lex() is called at the end of the text.
MaxEOF == 3
\* How many state objects are made, and how many calls on them, when the
\* classes NFAState, DFAState, NFA and DFA are used on their own.
MaxObjects == 3
MaxCalls == 7
\* Largest ruleset, in AST nodes, whose automata are followed as objects
\* through the stages.
MaxHeapNodes == 3

None == -1

\* pylex/__init__.py: the alphabet, in the order the loops go through it.
SIGMA == [i \in 1..NUM_SYMBOLS |-> i - 1]

Symbols == {SIGMA[i] : i \in 1..NUM_SYMBOLS}

\* ------------------------------------------------------------- utilities
Range(s) == {s[i] : i \in 1..Len(s)}

Min(S) == CHOOSE x \in S : \A y \in S : x <= y

RECURSIVE StringsOfLen(_)
StringsOfLen(n) ==
    IF n = 0 THEN {<<>>}
    ELSE {Append(w, c) : w \in StringsOfLen(n - 1), c \in Symbols}

StringsUpTo(n) == UNION {StringsOfLen(k) : k \in 0..n}

RECURSIVE TextsOfLen(_, _)
TextsOfLen(S, n) ==
    IF n = 0 THEN {<<>>}
    ELSE {Append(w, c) : w \in TextsOfLen(S, n - 1), c \in S}

TextsUpTo(S, n) == UNION {TextsOfLen(S, k) : k \in 0..n}

Reverse(s) == [i \in 1..Len(s) |-> s[Len(s) + 1 - i]]

\* ------------------------------------------------------------------ ASTs
\* <<"sym", c>>  <<"kleene", x>>  <<"alt", l, r>>  <<"cat", l, r>>
SymbolAST(c) == <<"sym", c>>
KleeneAST(x) == <<"kleene", x>>
AlternationAST(l, r) == <<"alt", l, r>>
ConcatenationAST(l, r) == <<"cat", l, r>>

RECURSIVE ASTsOfSize(_)
ASTsOfSize(n) ==
    IF n = 1 THEN {SymbolAST(c) : c \in Symbols}
    ELSE {KleeneAST(x) : x \in ASTsOfSize(n - 1)}
         \cup UNION {{AlternationAST(l, r) : l \in ASTsOfSize(i), r \in ASTsOfSize(n - 1 - i)}
                     : i \in 1..(n - 2)}
         \cup UNION {{ConcatenationAST(l, r) : l \in ASTsOfSize(i), r \in ASTsOfSize(n - 1 - i)}
                     : i \in 1..(n - 2)}

RECURSIVE RulesetsOfSize(_)
RulesetsOfSize(n) ==
    IF n = 0 THEN {<<>>}
    ELSE UNION {{<<x>> \o r : x \in ASTsOfSize(k), r \in RulesetsOfSize(n - k)} : k \in 1..n}

\* The rulesets the model compiles: every list of ASTs with at most
\* MaxNodes nodes in all (the empty list included).
Rulesets == UNION {RulesetsOfSize(n) : n \in 0..MaxNodes}

\* The language of an AST (the reference the scanner is compared with).
RECURSIVE Matches(_, _)
Matches(ast, w) ==
    CASE ast[1] = "sym" -> w = <<ast[2]>>
      [] ast[1] = "alt" -> Matches(ast[2], w) \/ Matches(ast[3], w)
      [] ast[1] = "cat" ->
            \E i \in 0..Len(w) :
                Matches(ast[2], SubSeq(w, 1, i)) /\ Matches(ast[3], SubSeq(w, i + 1, Len(w)))
      [] ast[1] = "kleene" ->
            \/ w = <<>>
            \/ \E i \in 1..Len(w) :
                Matches(ast[2], SubSeq(w, 1, i)) /\ Matches(ast, SubSeq(w, i + 1, Len(w)))

\* ------------------------------------------------------------------- NFA
\* An NFA under construction: the states 1..n in creation order, accepting[s]
\* the accepting ID of s or None, edges the triples <<from, symbol, to>>, with
\* symbol = None for an epsilon transition.
EmptyNFA == [n |-> 0, accepting |-> <<>>, edges |-> {}]

NFAState(nfa) == [nfa EXCEPT !.n = @ + 1, !.accepting = Append(@, None)]

NFA_add_transition(nfa, s, symbol, to) == [nfa EXCEPT !.edges = @ \cup {<<s, symbol, to>>}]

\* state.transitions.get(c, set())
NFATargets(nfa, s, c) == {e[3] : e \in {f \in nfa.edges : f[1] = s /\ f[2] = c}}

\* Thompson's construction.  Returns the grown NFA and the (initial,
\* accepting) pair of the fragment.
RECURSIVE _thompson(_, _)
_thompson(ast, nfa) ==
    CASE ast[1] = "sym" ->
            LET n2 == NFAState(NFAState(nfa))
                initial == nfa.n + 1
                accepting == nfa.n + 2
            IN [nfa |-> NFA_add_transition(n2, initial, ast[2], accepting),
                initial |-> initial, accepting |-> accepting]
      [] ast[1] = "kleene" ->
            LET n2 == NFAState(NFAState(nfa))
                initial == nfa.n + 1
                accepting == nfa.n + 2
                o == _thompson(ast[2], n2)
                e1 == NFA_add_transition(o.nfa, initial, None, o.initial)
                e2 == NFA_add_transition(e1, o.accepting, None, accepting)
                e3 == NFA_add_transition(e2, o.accepting, None, o.initial)
                e4 == NFA_add_transition(e3, initial, None, accepting)
            IN [nfa |-> e4, initial |-> initial, accepting |-> accepting]
      [] ast[1] = "alt" ->
            LET n2 == NFAState(NFAState(nfa))
                initial == nfa.n + 1
                accepting == nfa.n + 2
                l == _thompson(ast[2], n2)
                r == _thompson(ast[3], l.nfa)
                e1 == NFA_add_transition(r.nfa, initial, None, l.initial)
                e2 == NFA_add_transition(e1, initial, None, r.initial)
                e3 == NFA_add_transition(e2, l.accepting, None, accepting)
                e4 == NFA_add_transition(e3, r.accepting, None, accepting)
            IN [nfa |-> e4, initial |-> initial, accepting |-> accepting]
      [] ast[1] = "cat" ->
            LET l == _thompson(ast[2], nfa)
                r == _thompson(ast[3], l.nfa)
            IN [nfa |-> NFA_add_transition(r.nfa, l.accepting, None, r.initial),
                initial |-> l.initial, accepting |-> r.accepting]

\* asts_to_nfa: the global initial state is state 1; the i-th AST gets the
\* accepting ID i.
RECURSIVE asts_to_nfa_loop(_, _, _)
asts_to_nfa_loop(asts, i, nfa) ==
    IF i > Len(asts) THEN nfa
    ELSE LET a == _thompson(asts[i], nfa)
             marked == [a.nfa EXCEPT !.accepting[a.accepting] = i]
         IN asts_to_nfa_loop(asts, i + 1, NFA_add_transition(marked, 1, None, a.initial))

asts_to_nfa(asts) ==
    [initial |-> 1] @@ asts_to_nfa_loop(asts, 1, NFAState(EmptyNFA))

\* NFAState.epsilon_closure: the worklist loop.  The order in which the
\* set of epsilon targets is walked does not change the set returned.
RECURSIVE epsilon_closure_loop(_, _, _)
epsilon_closure_loop(nfa, closure, worklist) ==
    IF worklist = <<>> THEN closure
    ELSE LET state == worklist[Len(worklist)]
             rest == SubSeq(worklist, 1, Len(worklist) - 1)
             new == NFATargets(nfa, state, None) \ closure
             RECURSIVE push(_, _)
             push(wl, S) == IF S = {} THEN wl
                            ELSE LET t == CHOOSE x \in S : TRUE
                                 IN push(Append(wl, t), S \ {t})
         IN epsilon_closure_loop(nfa, closure \cup new, push(rest, new))

\* Mutant: the closure stops after one epsilon step.
epsilon_closure_OneStep(nfa, s) == {s} \cup NFATargets(nfa, s, None)

epsilon_closure(nfa, s) == epsilon_closure_loop(nfa, {s}, <<s>>)

\* Mutant: Delta(q, c) without the epsilon closure.
_delta_closure_NoClosure(nfa, q, c) ==
    UNION {NFATargets(nfa, state, c) : state \in q}

\* NFA._delta_closure: EpsilonClosure(Delta(q, c)).
_delta_closure(nfa, q, c) ==
    UNION {epsilon_closure(nfa, target) : target \in UNION {NFATargets(nfa, state, c) : state \in q}}

\* Mutant: the largest accepting ID instead of the smallest.
_configuration_accepting_Max(nfa, q) ==
    LET ids == {nfa.accepting[s] : s \in q} \ {None, 0}
    IN IF ids = {} THEN None ELSE CHOOSE x \in ids : \A y \in ids : x >= y

\* NFA._configuration_accepting: min(state.accepting for state in q if
\* state.accepting), None when there is none.
_configuration_accepting(nfa, q) ==
    LET ids == {nfa.accepting[s] : s \in q} \ {None, 0}
    IN IF ids = {} THEN None ELSE Min(ids)

\* ------------------------------------------------------------------- DFA
\* A DFA: the states 1..n in creation order, accepting[s] the accepting ID or
\* None, transitions[s] the dict of s (a function from the symbols that have
\* a transition to the target state).  A dict is walked in the order of its
\* insertions, which every stage makes in the order of SIGMA.
EmptyDict == [c \in {} |-> 0]

EmptyDFA == [n |-> 0, accepting |-> <<>>, transitions |-> <<>>, initial |-> 1]

DFAState(dfa, accepting) ==
    [dfa EXCEPT !.n = @ + 1, !.accepting = Append(@, accepting),
                !.transitions = Append(@, EmptyDict)]

\* Mutant: the second assertion is missing.
DFA_add_transition_ok_EpsilonOnly(dfa, s, symbol) == symbol # None

\* The two assertions of DFAState.add_transition.
DFA_add_transition_ok(dfa, s, symbol) ==
    symbol # None /\ symbol \notin DOMAIN dfa.transitions[s]

DFA_add_transition(dfa, s, symbol, to) ==
    IF DFA_add_transition_ok(dfa, s, symbol)
    THEN [dfa EXCEPT !.transitions[s] = [c \in (DOMAIN @) \cup {symbol} |->
                                            IF c = symbol THEN to ELSE @[c]]]
    ELSE dfa

\* state.transitions.get(c, None)
DFAGet(dfa, s, c) == IF c \in DOMAIN dfa.transitions[s] THEN dfa.transitions[s][c] ELSE None

\* state.transitions.items(), as the sequence of the symbols in dict order.
RECURSIVE DictKeys(_)
DictKeys(keys) ==
    IF keys = {} THEN <<>>
    ELSE LET i == Min({j \in 1..NUM_SYMBOLS : SIGMA[j] \in keys})
         IN <<SIGMA[i]>> \o DictKeys(keys \ {SIGMA[i]})

Items(dfa, s) == DictKeys(DOMAIN dfa.transitions[s])

\* ------------------------------------------------- NFA._rabin_scott
\* The locals of _rabin_scott: Q is the dict from configuration to DFA state
\* (the k-th configuration entered maps to DFA state k), worklist the list of
\* configurations, dfa the DFA states made so far.
QIndex(Q, t) == CHOOSE i \in 1..Len(Q) : Q[i] = t

\* Mutant: a configuration goes on the worklist every time it is met.
rabin_scott_symbol_Requeue(nfa, st, q, symbol) ==
    LET t == _delta_closure(nfa, q, symbol)
    IN IF t = {} THEN st
       ELSE IF t \in Range(st.Q)
            THEN [st EXCEPT !.worklist = Append(@, t),
                            !.dfa = DFA_add_transition(@, QIndex(st.Q, q), symbol, QIndex(st.Q, t))]
            ELSE LET Q2 == Append(st.Q, t)
                     d2 == DFAState(st.dfa, _configuration_accepting(nfa, t))
                 IN [st EXCEPT !.Q = Q2,
                               !.worklist = Append(@, t),
                               !.dfa = DFA_add_transition(d2, QIndex(Q2, q), symbol, QIndex(Q2, t))]

\* One pass of the body of "for symbol in SIGMA" for the configuration q.
rabin_scott_symbol(nfa, st, q, symbol) ==
    LET t == _delta_closure(nfa, q, symbol)
    IN IF t = {} THEN st
       ELSE IF t \in Range(st.Q)
            THEN [st EXCEPT !.dfa = DFA_add_transition(@, QIndex(st.Q, q), symbol, QIndex(st.Q, t))]
            ELSE LET Q2 == Append(st.Q, t)
                     d2 == DFAState(st.dfa, _configuration_accepting(nfa, t))
                 IN [st EXCEPT !.Q = Q2,
                               !.worklist = Append(@, t),
                               !.dfa = DFA_add_transition(d2, QIndex(Q2, q), symbol, QIndex(Q2, t))]

RECURSIVE rabin_scott_symbols(_, _, _, _)
rabin_scott_symbols(nfa, st, q, i) ==
    IF i > NUM_SYMBOLS THEN st
    ELSE rabin_scott_symbols(nfa, rabin_scott_symbol(nfa, st, q, SIGMA[i]), q, i + 1)

\* ------------------------------------------------------ DFA._hopcroft
\* The states _initial_partition walks to from the initial state.
RECURSIVE DFAReachable(_, _, _)
DFAReachable(dfa, seen, frontier) ==
    IF frontier = {} THEN seen
    ELSE LET succ == UNION {{dfa.transitions[s][c] : c \in DOMAIN dfa.transitions[s]} : s \in frontier}
         IN DFAReachable(dfa, seen \cup succ, succ \ seen)

DFAStates(dfa) == DFAReachable(dfa, {dfa.initial}, {dfa.initial})

\* Mutant: all the states start in one block.
_initial_partition_OneBlock(dfa) == {DFAStates(dfa)}

\* DFA._initial_partition: one block per value of accepting (None included).
_initial_partition(dfa) ==
    {{s \in DFAStates(dfa) : dfa.accepting[s] = a} : a \in {dfa.accepting[s] : s \in DFAStates(dfa)}}

\* splits(c) of DFA._split: the state i the loop "for i in S" meets first
\* decides the split; any state of S can be first.  The blocks hold the
\* states whose c-target IS the c-target of i, and the others.
splits(dfa, S, c) ==
    {sp \in {LET expected == DFAGet(dfa, i, c)
                 s1 == {j \in S : DFAGet(dfa, j, c) = expected}
             IN {s1, S \ s1} : i \in S} : {} \notin sp}

\* DFA._split: the split on the first symbol of SIGMA that splits S, {S}
\* when no symbol does.  The set of the values it can return.
_split(dfa, S) ==
    LET splitting == {i \in 1..NUM_SYMBOLS : splits(dfa, S, SIGMA[i]) # {}}
    IN IF splitting = {} THEN {{S}} ELSE splits(dfa, S, SIGMA[Min(splitting)])

\* The values T can have after "for p in P: T |= DFA._split(p)".
RECURSIVE RefinedPartitions(_, _)
RefinedPartitions(dfa, blocks) ==
    IF blocks = {} THEN {{}}
    ELSE LET p == CHOOSE b \in blocks : TRUE
         IN {sp \cup rest : sp \in _split(dfa, p), rest \in RefinedPartitions(dfa, blocks \ {p})}

\* next(p for p in P if target in p)
BlockOf(P, state) == CHOOSE p \in P : state \in p

\* aux(subset) of _hopcroft.  st.subsets is dfa_states (the k-th subset
\* entered maps to the new state k), st.dfa the new DFA so far; rep[subset]
\* is the state next(iter(subset)) yields.
RECURSIVE hopcroft_aux(_, _, _, _, _)
RECURSIVE hopcroft_aux_items(_, _, _, _, _, _, _)
hopcroft_aux(dfa, P, rep, subset, st) ==
    LET state == rep[subset]
        st1 == [subsets |-> Append(st.subsets, subset),
                dfa |-> DFAState(st.dfa, dfa.accepting[state])]
    IN hopcroft_aux_items(dfa, P, rep, subset, state, Items(dfa, state), st1)

hopcroft_aux_items(dfa, P, rep, subset, state, items, st) ==
    IF items = <<>> THEN st
    ELSE LET symbol == Head(items)
             target_subset == BlockOf(P, dfa.transitions[state][symbol])
             st1 == IF target_subset \in Range(st.subsets) THEN st
                    ELSE hopcroft_aux(dfa, P, rep, target_subset, st)
             st2 == [st1 EXCEPT !.dfa = DFA_add_transition(@, QIndex(st1.subsets, subset), symbol,
                                                           QIndex(st1.subsets, target_subset))]
         IN hopcroft_aux_items(dfa, P, rep, subset, state, Tail(items), st2)

\* The choices of next(iter(subset)) for the blocks of P.
Representatives(dfa, P) == {rep \in [P -> 1..dfa.n] : \A p \in P : rep[p] \in p}

\* The DFA built from the final partition P.
hopcroft_build(dfa, P, rep) ==
    hopcroft_aux(dfa, P, rep, BlockOf(P, dfa.initial), [subsets |-> <<>>, dfa |-> EmptyDFA]).dfa

\* ------------------------------------------------ hopcroft.py
\* Hopcroft._partition_containing: the block of self.P that holds the
\* state; when there is none (the state None included) it returns None,
\* written {} here (no block is empty).
Hopcroft_partition_containing(P, state) ==
    IF \E p \in P : state \in p THEN CHOOSE p \in P : state \in p ELSE {}

\* splits(c) of Hopcroft._split: as in DFA._split, but the blocks of the
\* c-targets are compared, not the c-targets.
Hopcroft_splits(dfa, P, S, c) ==
    {sp \in {LET expected == Hopcroft_partition_containing(P, DFAGet(dfa, i, c))
                 s1 == {j \in S : Hopcroft_partition_containing(P, DFAGet(dfa, j, c)) = expected}
             IN {s1, S \ s1} : i \in S} : {} \notin sp}

\* Hopcroft._split: the set of the values it can return.
Hopcroft_split(dfa, P, S) ==
    LET splitting == {i \in 1..NUM_SYMBOLS : Hopcroft_splits(dfa, P, S, SIGMA[i]) # {}}
    IN IF splitting = {} THEN {{S}} ELSE Hopcroft_splits(dfa, P, S, SIGMA[Min(splitting)])

\* The values T can have after "for p in self.P: T |= self._split(p)".
RECURSIVE Hopcroft_refined(_, _, _)
Hopcroft_refined(dfa, P, blocks) ==
    IF blocks = {} THEN {{}}
    ELSE LET p == CHOOSE b \in blocks : TRUE
         IN {sp \cup rest : sp \in Hopcroft_split(dfa, P, p),
                            rest \in Hopcroft_refined(dfa, P, blocks \ {p})}

\* The values self.P can have when "while self.P != T" ends.
RECURSIVE Hopcroft_fixpoints(_, _, _)
Hopcroft_fixpoints(dfa, P, T) ==
    IF P = T THEN {P}
    ELSE UNION {Hopcroft_fixpoints(dfa, T, T2) : T2 \in Hopcroft_refined(dfa, T, T)}

\* Hopcroft(dfa)(): the DFAs it can return.
Hopcroft__call__(dfa) ==
    UNION {{hopcroft_build(dfa, P, rep) : rep \in Representatives(dfa, P)}
           : P \in Hopcroft_fixpoints(dfa, {}, _initial_partition(dfa))}

\* ------------------------------------------- _ScannerGenerator
\* _create_table.  st.states is self._states (the k-th state entered has
\* the index k-1), st.accepting and st.table the two lists.
RECURSIVE _create_table(_, _, _)
RECURSIVE _create_table_items(_, _, _, _)
_create_table(dfa, state, st) ==
    LET st1 == IF state \notin Range(st.states)
               THEN [states |-> Append(st.states, state),
                     accepting |-> Append(st.accepting,
                                          IF dfa.accepting[state] \notin {None, 0}
                                          THEN dfa.accepting[state] ELSE 0),
                     table |-> Append(st.table, [c \in 0..(NUM_SYMBOLS - 1) |-> -1])]
               ELSE st
    IN _create_table_items(dfa, state, Items(dfa, state), st1)

_create_table_items(dfa, state, items, st) ==
    IF items = <<>> THEN st
    ELSE LET symbol == Head(items)
             target == dfa.transitions[state][symbol]
             st1 == IF target \notin Range(st.states) THEN _create_table(dfa, target, st) ELSE st
             index == QIndex(st1.states, state) - 1
             target_index == QIndex(st1.states, target) - 1
             \* ord(symbol) is the symbol itself
             st2 == [st1 EXCEPT !.table[index + 1][symbol] = target_index]
         IN _create_table_items(dfa, state, Tail(items), st2)

\* Mutant: a missing transition is entered as a move to state 0.
ScannerGenerator_NoDead(dfa) ==
    LET st == _create_table(dfa, dfa.initial, [states |-> <<>>, accepting |-> <<>>, table |-> <<>>])
    IN [accepting |-> st.accepting,
        transitions |-> [i \in DOMAIN st.table |->
                            [c \in DOMAIN st.table[i] |->
                                IF st.table[i][c] = -1 THEN 0 ELSE st.table[i][c]]]]

\* _ScannerGenerator.__init__: the lists behind the two C arrays.
ScannerGenerator(dfa) ==
    LET st == _create_table(dfa, dfa.initial, [states |-> <<>>, accepting |-> <<>>, table |-> <<>>])
    IN [accepting |-> st.accepting, transitions |-> st.table]

\* ------------------------------------------------------ pylex() in C
\* What a read of accepting[i] can yield: the element when i is an index
\* of the array; otherwise the read is outside the array and yields
\* whatever the build has put next to it: zero, a positive int or a
\* negative one (gcc builds of the generated source yield each of them).
OutOfBoundsValues == {0, 1, -1}

AcceptingRead(tab, i) ==
    IF i \in 0..(Len(tab.accepting) - 1) THEN {tab.accepting[i + 1]} ELSE OutOfBoundsValues

\* transitions[curstate][(unsigned char) c], for an index inside the table.
TransitionsRead(tab, i, c) == tab.transitions[i + 1][c]

\* The bytes ISO C lets ungetc push back for sure.
UngetcGuaranteed == 1

\* Mutant: the stack is cleared after the push instead of before it.
PushStack_ClearAfterPush(stk, acc, state) == IF acc # 0 THEN <<>> ELSE Append(stk, state)

\* The stack after "if (accepting[curstate]) stack_size = 0; PUSH_STACK(curstate)".
PushStack(stk, acc, state) == Append(IF acc # 0 THEN <<>> ELSE stk, state)

\* The inputs the scanner is run on.
Inputs == StringsUpTo(MaxInput)

\* ------------------------------------------------- the regex scanner
\* The regex text is a Python str, modelled as the sequence of its code
\* points; the empty str (what _getc returns at the end) is <<>>, and
\* ord() and chr() are left out with it.  The text is read over the
\* whole alphabet of pylex/__init__.py, the 7-bit code points.
TextSIGMA == 0 .. 127

\* The characters the scanner and the tests name.
Chr == [NUL |-> 0, BEL |-> 7, BS |-> 8, TAB |-> 9, LF |-> 10, VT |-> 11,
        FF |-> 12, CR |-> 13, lparen |-> 40, rparen |-> 41, star |-> 42,
        plus |-> 43, hyphen |-> 45, zero |-> 48, lbracket |-> 91,
        backslash |-> 92, rbracket |-> 93, caret |-> 94, a |-> 97,
        b |-> 98, c |-> 99, f |-> 102, n |-> 110, r |-> 114, t |-> 116,
        v |-> 118, pipe |-> 124, DEL |-> 127, beyond |-> 128]

\* Token.EOF ... Token.CHARCLASS
Token == [EOF |-> 0, EOL |-> 1, STAR |-> 2, PLUS |-> 3, PIPE |-> 4,
          LPAREN |-> 5, RPAREN |-> 6, SYMBOL |-> 7, CHARCLASS |-> 8]

NoToken == [category |-> None, symbol |-> None, char_class |-> {}]

\* Token(category, arg): the token made, or the assertion that fails.
\* arg is a str for SYMBOL and a set of characters for CHARCLASS.
Token__init__(category, arg) ==
    IF category = Token.SYMBOL
    THEN IF Len(arg) = 1 /\ arg[1] \in TextSIGMA
         THEN [raised |-> "", token |-> [category |-> category, symbol |-> arg[1], char_class |-> {}]]
         ELSE [raised |-> "AssertionError", token |-> NoToken]
    ELSE IF category = Token.CHARCLASS
    THEN IF Cardinality(arg) >= 1 /\ arg \subseteq TextSIGMA
         THEN [raised |-> "", token |-> [category |-> category, symbol |-> None, char_class |-> arg]]
         ELSE [raised |-> "AssertionError", token |-> NoToken]
    ELSE [raised |-> "", token |-> [category |-> category, symbol |-> None, char_class |-> {}]]

is_end(token) == token.category = Token.EOF \/ token.category = Token.EOL

\* RegexScanner._char_to_category.get(c, Token.SYMBOL)
_char_to_category(c) ==
    CASE c = <<>> -> Token.EOF
      [] c = <<Chr.LF>> -> Token.EOL
      [] c = <<Chr.star>> -> Token.STAR
      [] c = <<Chr.plus>> -> Token.PLUS
      [] c = <<Chr.pipe>> -> Token.PIPE
      [] c = <<Chr.lparen>> -> Token.LPAREN
      [] c = <<Chr.rparen>> -> Token.RPAREN
      [] OTHER -> Token.SYMBOL

\* RegexScanner._escape_sequence, as the set of its items.
_escape_sequence ==
    { <<Chr.zero, Chr.NUL>>, <<Chr.a, Chr.BEL>>, <<Chr.b, Chr.BS>>,
      <<Chr.t, Chr.TAB>>, <<Chr.n, Chr.LF>>, <<Chr.v, Chr.VT>>,
      <<Chr.f, Chr.FF>>, <<Chr.r, Chr.CR>> }

\* Mutant: reading at the end of the input leaves a newline to be read.
_getc_Refill(inp) ==
    IF inp = <<>> THEN [c |-> <<>>, input |-> <<Chr.LF>>]
                  ELSE [c |-> <<Head(inp)>>, input |-> Tail(inp)]

\* _getc on a str: c, self._input = self._input[0:1], self._input[1:]
_getc(inp) ==
    IF inp = <<>> THEN [c |-> <<>>, input |-> <<>>]
                  ELSE [c |-> <<Head(inp)>>, input |-> Tail(inp)]

\* What a call on the scanner gives: the token returned or the error
\* raised, and the _input it leaves.
Returns(res, inp) == [raised |-> res.raised, token |-> res.token, input |-> inp]

Raises(msg, inp) == [raised |-> msg, token |-> NoToken, input |-> inp]

\* Mutant: the byte after the backslash is taken as it is, the table unused.
_lex_escape_sequence_Raw(inp) ==
    LET g == _getc(inp)
    IN IF g.c = <<>> THEN Raises("trailing backslash", g.input)
       ELSE Returns(Token__init__(Token.SYMBOL, g.c), g.input)

\* _lex_escape_sequence, the backslash already consumed.
_lex_escape_sequence(inp) ==
    LET g == _getc(inp)
    IN IF g.c = <<>> THEN Raises("trailing backslash", g.input)
       ELSE IF \E e \in _escape_sequence : e[1] = g.c[1]
       THEN LET e == CHOOSE e \in _escape_sequence : e[1] = g.c[1]
            IN Returns(Token__init__(Token.SYMBOL, <<e[2]>>), g.input)
       ELSE Returns(Token__init__(Token.SYMBOL, g.c), g.input)

\* The while loop of _lex_char_class from its test on: l holds the locals
\* c, characters, range_start and prev_c, and the scanner's _input.
RECURSIVE _lex_char_class_while(_)
_lex_char_class_while(l) ==
    IF l.c # <<>> /\ l.c # <<Chr.rbracket>>
    THEN LET g == _getc(l.input)
             next(chars, start) ==
                 _lex_char_class_while([c |-> g.c, input |-> g.input, characters |-> chars,
                                        range_start |-> start, prev_c |-> l.c])
         IN IF l.c = <<Chr.hyphen>>
            THEN IF l.prev_c # <<>>
                 THEN next(l.characters, l.prev_c)
                 ELSE next(l.characters \cup {Chr.hyphen}, l.range_start)
            ELSE IF l.range_start # <<>>
                 THEN IF l.prev_c # <<Chr.hyphen>>
                      THEN [raised |-> "AssertionError", l |-> l]
                      ELSE IF l.c[1] < l.range_start[1]
                      THEN [raised |-> "invalid range end", l |-> l]
                      ELSE next(l.characters \cup (l.range_start[1] .. l.c[1]), <<>>)
                 ELSE next(l.characters \cup {l.c[1]}, l.range_start)
    ELSE [raised |-> "", l |-> l]

\* Mutant: the leading '^' does not invert the class.
_lex_char_class_return_Plain(inverted, characters, inp) ==
    Returns(Token__init__(Token.CHARCLASS, characters), inp)

\* The return statements of _lex_char_class.
_lex_char_class_return(inverted, characters, inp) ==
    IF inverted
    THEN Returns(Token__init__(Token.CHARCLASS, TextSIGMA \ characters), inp)
    ELSE Returns(Token__init__(Token.CHARCLASS, characters), inp)

\* _lex_char_class, the opening bracket already consumed.
_lex_char_class(inp) ==
    LET g1 == _getc(inp)
        inverted == g1.c = <<Chr.caret>>
        g2 == IF inverted THEN _getc(g1.input) ELSE g1
        bracket == g2.c = <<Chr.rbracket>>
        g3 == IF bracket THEN _getc(g2.input) ELSE g2
        r == _lex_char_class_while([c |-> g3.c, input |-> g3.input,
                 characters |-> IF bracket THEN {Chr.rbracket} ELSE {},
                 range_start |-> <<>>, prev_c |-> <<>>])
        l == r.l
        characters ==
            IF l.prev_c = <<Chr.hyphen>>
            THEN l.characters \cup {Chr.hyphen}
                   \cup (IF l.range_start # <<>> THEN {l.range_start[1]} ELSE {})
            ELSE l.characters
    IN IF r.raised # "" THEN Raises(r.raised, l.input)
       ELSE IF l.c = <<>> THEN Raises("unmatched [ or [^", l.input)
       ELSE _lex_char_class_return(inverted, characters, l.input)

\* RegexScanner.lex() on a scanner whose _input is inp (no log file).
lex(inp) ==
    LET g == _getc(inp)
    IN IF g.c = <<Chr.backslash>> THEN _lex_escape_sequence(g.input)
       ELSE IF g.c = <<Chr.lbracket>> THEN _lex_char_class(g.input)
       ELSE Returns(Token__init__(_char_to_category(g.c), g.c), g.input)

\* -------------------------------------------------- the regex parser
\* The parser object is its _current_token and its scanner's _input.  A
\* parsing method gives the AST it returns, or the error it raises
\* (its message; "" when it returns), and the parser it leaves.
ParserReturns(ast, p) == [raised |-> "", ast |-> ast, tok |-> p.tok, input |-> p.input]

ParserRaises(msg, p) == [raised |-> msg, ast |-> <<>>, tok |-> p.tok, input |-> p.input]

\* self._current_token = self._scanner.lex()
_consume_token(p) ==
    LET r == lex(p.input)
    IN IF r.raised # "" THEN [raised |-> r.raised, tok |-> p.tok, input |-> r.input]
       ELSE [raised |-> "", tok |-> r.token, input |-> r.input]

\* The one element of a singleton: The({e(x) : x \in {v}}) is e(v) with v
\* computed once, where LET would compute it at each use.
The(S) == CHOOSE x \in S : TRUE

RECURSIVE _parse_regex(_), _parse_term(_), _parse_parenthetical(_)
RECURSIVE _parse_kleene(_), _parse_concatenation(_), _parse_alternation(_)

_parse_regex(p) == _parse_alternation(p)

_parse_term(p) ==
    IF p.tok.category = Token.SYMBOL
    THEN The({ IF q.raised # "" THEN ParserRaises(q.raised, q)
               ELSE ParserReturns(SymbolAST(p.tok.symbol), q)
             : q \in {_consume_token(p)} })
    ELSE IF p.tok.category = Token.LPAREN
    THEN _parse_parenthetical(p)
    ELSE ParserRaises("expected regex term", p)

\* Mutant: a regex that is not followed by ')' is returned all the same.
_parse_parenthetical_close_NoCheck(r) ==
    IF r.raised # "" THEN r
    ELSE IF r.tok.category # Token.RPAREN
    THEN r
    ELSE The({ IF t.raised # "" THEN ParserRaises(t.raised, t)
               ELSE ParserReturns(r.ast, t)
             : t \in {_consume_token(r)} })

\* _parse_parenthetical once the opening paren is eaten and the regex
\* parsed: r is what _parse_regex gave.
_parse_parenthetical_close(r) ==
    IF r.raised # "" THEN r
    ELSE IF r.tok.category # Token.RPAREN
    THEN ParserRaises("unmatched parentheses", r)
    ELSE The({ IF t.raised # "" THEN ParserRaises(t.raised, t)
               ELSE ParserReturns(r.ast, t)
             : t \in {_consume_token(r)} })

_parse_parenthetical(p) ==
    IF p.tok.category # Token.LPAREN THEN ParserRaises("AssertionError", p)
    ELSE The({ IF q.raised # "" THEN ParserRaises(q.raised, q)
               ELSE The({ _parse_parenthetical_close(r) : r \in {_parse_regex(q)} })
             : q \in {_consume_token(p)} })

_parse_kleene(p) ==
    The({ IF r.raised # "" THEN r
          ELSE IF r.tok.category = Token.STAR
          THEN The({ IF t.raised # "" THEN ParserRaises(t.raised, t)
                     ELSE ParserReturns(KleeneAST(r.ast), t)
                   : t \in {_consume_token(r)} })
          ELSE r
        : r \in {_parse_term(p)} })

_parse_concatenation(p) ==
    The({ IF lhs.raised # "" THEN lhs
          ELSE IF lhs.tok.category \in {Token.SYMBOL, Token.LPAREN}
          THEN The({ IF rhs.raised # "" THEN rhs
                     ELSE ParserReturns(ConcatenationAST(lhs.ast, rhs.ast), rhs)
                   : rhs \in {_parse_concatenation(lhs)} })
          ELSE lhs
        : lhs \in {_parse_kleene(p)} })

\* _parse_alternation once the pipe is eaten: t is the parser then.
_parse_alternation_rhs(lhs, t) ==
    IF t.raised # "" THEN ParserRaises(t.raised, t)
    ELSE The({ IF rhs.raised # "" THEN rhs
               ELSE ParserReturns(AlternationAST(lhs.ast, rhs.ast), rhs)
             : rhs \in {_parse_alternation(t)} })

_parse_alternation(p) ==
    The({ IF lhs.raised # "" THEN lhs
          ELSE IF lhs.tok.category = Token.PIPE
          THEN The({ _parse_alternation_rhs(lhs, t) : t \in {_consume_token(lhs)} })
          ELSE lhs
        : lhs \in {_parse_concatenation(p)} })

\* One round of the while loop of parse_top_level on a line that is not
\* empty: r is what _parse_regex gave, and the value is the round's
\* error, or the AST to append and the parser after the EOL is eaten.
parse_top_level_line(r) ==
    IF r.raised # "" THEN r
    ELSE IF ~is_end(r.tok) THEN ParserRaises("junk after regex", r)
    ELSE The({ IF t.raised # "" THEN ParserRaises(t.raised, t)
               ELSE ParserReturns(r.ast, t)
             : t \in {_consume_token(r)} })

\* parse_top_level raises what r raised, leaving the parser as r has it.
TopLevelRaises(r) == [raised |-> r.raised, asts |-> <<>>, input |-> r.input, tok |-> r.tok]

\* The while loop of parse_top_level, from its test on; the value is the
\* list returned, or the error raised, and the _input and _current_token
\* left.
RECURSIVE parse_top_level_while(_, _)
parse_top_level_while(p, list) ==
    IF p.tok.category # Token.EOF
    THEN IF p.tok.category # Token.EOL
         THEN The({ IF r.raised # ""
                    THEN TopLevelRaises(r)
                    ELSE parse_top_level_while([tok |-> r.tok, input |-> r.input],
                                               Append(list, r.ast))
                  : r \in {parse_top_level_line(_parse_regex(p))} })
         ELSE The({ IF t.raised # ""
                    THEN TopLevelRaises(t)
                    ELSE parse_top_level_while(t, list)
                  : t \in {_consume_token(p)} })
    ELSE [raised |-> "", asts |-> list, input |-> p.input, tok |-> p.tok]

\* RegexParser(RegexScanner(inp)).parse_top_level()
parse_top_level(inp) ==
    The({ IF t.raised # "" THEN TopLevelRaises(t)
          ELSE parse_top_level_while(t, <<>>)
        : t \in {_consume_token([tok |-> NoToken, input |-> inp])} })

VARIABLES
    stage,      \* where the compilation is
    asts,       \* the list of ASTs of the ruleset
    nfa,        \* the NFA built by asts_to_nfa
    rs,         \* the locals of NFA._rabin_scott
    popped,     \* history: the configurations taken from the worklist so far
    dfas,       \* the DFAs made so far: to_dfa(), then each minimized()
    hop,        \* the locals P and T of DFA._hopcroft
    rounds,     \* history: rounds of the refinement loop in this minimized()
    tables,     \* the lists _accepting and _table of the scanner generator
    file,       \* the bytes the FILE still has to deliver (pushed back ones first)
    pc,         \* where pylex() is
    curstate,   \* pylex(): curstate
    stack,      \* pylex(): backtrack_stack[0 .. stack_size-1]
    lexeme,     \* pylex(): lexeme[0 .. lexeme_size-1]
    category,   \* *category_out
    ret,        \* what the last call returned: "lexeme", "NULL" or "none"
    fileAtCall, \* history: file when the call began
    readSeq,    \* history: the bytes getc has delivered in this call
    visited,    \* history: curstate before each of those bytes
    pushedBack, \* history: the bytes ungetc has taken in this call
    text,       \* history: the regex text the RegexScanner was made over
    input,      \* RegexScanner._input: the text not yet read
    lexed,      \* history: what each direct call of lex() returned or raised
    parsed,     \* what parse_top_level() did: "none", "ok" or the error raised
    nfaStates,  \* NFAState objects made through the class's own methods
    dfaStates,  \* DFAState objects made through the class's own methods
    call        \* history: the last method call made on those objects

compileVars == <<stage, asts, nfa, rs, popped, dfas, hop, rounds>>

scanVars == <<file, pc, curstate, stack, lexeme, category, ret,
              fileAtCall, readSeq, visited, pushedBack>>

frontVars == <<text, input, lexed, parsed>>

objectVars == <<nfaStates, dfaStates, call>>

vars == <<stage, asts, nfa, rs, popped, dfas, hop, rounds, tables,
          file, pc, curstate, stack, lexeme, category, ret,
          fileAtCall, readSeq, visited, pushedBack,
          text, input, lexed, parsed, nfaStates, dfaStates, call>>

NoTables == [accepting |-> <<>>, transitions |-> <<>>]

NoHop == [P |-> {}, T |-> {}]

NoRS == [Q |-> <<>>, worklist |-> <<>>, dfa |-> EmptyDFA]

NoCall == [op |-> "none"]

\* No regex text is being read.
NoFront ==
    /\ text = <<>>
    /\ input = <<>>
    /\ lexed = <<>>
    /\ parsed = "none"

\* No state object has been made outside the pipeline.
NoObjects ==
    /\ nfaStates = <<>>
    /\ dfaStates = <<>>
    /\ call = NoCall

Init ==
    /\ stage = "asts"
    /\ asts \in Rulesets
    /\ nfa = EmptyNFA
    /\ rs = NoRS
    /\ popped = <<>>
    /\ dfas = <<>>
    /\ hop = NoHop
    /\ rounds = 0
    /\ tables = NoTables
    /\ file = <<>>
    /\ pc = "closed"
    /\ curstate = 0
    /\ stack = <<>>
    /\ lexeme = <<>>
    /\ category = 0
    /\ ret = "none"
    /\ fileAtCall = <<>>
    /\ readSeq = <<>>
    /\ visited = <<>>
    /\ pushedBack = <<>>
    /\ NoFront
    /\ NoObjects

\* nfa = asts_to_nfa(asts)
AstsToNfa ==
    /\ stage = "asts"
    /\ nfa' = asts_to_nfa(asts)
    /\ stage' = "nfa"
    /\ UNCHANGED <<asts, rs, popped, dfas, hop, rounds, tables>>
    /\ UNCHANGED scanVars
    /\ UNCHANGED frontVars
    /\ UNCHANGED objectVars

\* nfa.to_dfa() up to the first test of "while worklist".
RabinScottStart ==
    /\ stage = "nfa"
    /\ LET q0 == epsilon_closure(nfa, nfa.initial)
       IN rs' = [Q |-> <<q0>>, worklist |-> <<q0>>,
                 dfa |-> DFAState(EmptyDFA, _configuration_accepting(nfa, q0))]
    /\ stage' = "rabin_scott"
    /\ UNCHANGED <<asts, nfa, popped, dfas, hop, rounds, tables>>
    /\ UNCHANGED scanVars
    /\ UNCHANGED frontVars
    /\ UNCHANGED objectVars

\* One round of "while worklist": pop a configuration and go through SIGMA.
RabinScottStep ==
    /\ stage = "rabin_scott"
    /\ rs.worklist # <<>>
    /\ LET q == rs.worklist[Len(rs.worklist)]
           st == [rs EXCEPT !.worklist = SubSeq(@, 1, Len(@) - 1)]
       IN /\ rs' = rabin_scott_symbols(nfa, st, q, 1)
          /\ popped' = Append(popped, q)
    /\ UNCHANGED <<stage, asts, nfa, dfas, hop, rounds, tables>>
    /\ UNCHANGED scanVars
    /\ UNCHANGED frontVars
    /\ UNCHANGED objectVars

\* The worklist is empty: return DFA(Q[q0]).
RabinScottReturn ==
    /\ stage = "rabin_scott"
    /\ rs.worklist = <<>>
    /\ dfas' = <<rs.dfa>>
    /\ stage' = "dfa"
    /\ UNCHANGED <<asts, nfa, rs, popped, hop, rounds, tables>>
    /\ UNCHANGED scanVars
    /\ UNCHANGED frontVars
    /\ UNCHANGED objectVars

\* The DFA minimized() is working on, and the last one made.
Source == dfas[Len(dfas)]

\* dfa.minimized() up to the first test of "while P != T".
HopcroftStart ==
    /\ stage = "dfa"
    /\ Len(dfas) <= MaxMinimize
    /\ hop' = [P |-> {}, T |-> _initial_partition(Source)]
    /\ rounds' = 0
    /\ stage' = "hopcroft"
    /\ UNCHANGED <<asts, nfa, rs, popped, dfas, tables>>
    /\ UNCHANGED scanVars
    /\ UNCHANGED frontVars
    /\ UNCHANGED objectVars

\* One round of "while P != T".
HopcroftRound ==
    /\ stage = "hopcroft"
    /\ hop.P # hop.T
    /\ \E T \in RefinedPartitions(Source, hop.T) : hop' = [P |-> hop.T, T |-> T]
    /\ rounds' = rounds + 1
    /\ UNCHANGED <<stage, asts, nfa, rs, popped, dfas, tables>>
    /\ UNCHANGED scanVars
    /\ UNCHANGED frontVars
    /\ UNCHANGED objectVars

\* P = T: build the DFA of the partition and return it.
HopcroftReturn ==
    /\ stage = "hopcroft"
    /\ hop.P = hop.T
    /\ \E rep \in Representatives(Source, hop.P) :
          dfas' = Append(dfas, hopcroft_build(Source, hop.P, rep))
    /\ stage' = "dfa"
    /\ UNCHANGED <<asts, nfa, rs, popped, hop, rounds, tables>>
    /\ UNCHANGED scanVars
    /\ UNCHANGED frontVars
    /\ UNCHANGED objectVars

\* TableDrivenScannerGenerator(min_dfa), as main() calls it on the DFA
\* minimized once.
CreateTable ==
    /\ stage = "dfa"
    /\ Len(dfas) = 2
    /\ tables' = ScannerGenerator(dfas[2])
    /\ stage' = "tables"
    /\ UNCHANGED <<asts, nfa, rs, popped, dfas, hop, rounds>>
    /\ UNCHANGED scanVars
    /\ UNCHANGED frontVars
    /\ UNCHANGED objectVars

\* The host program opens an input for the generated scanner.
Fopen ==
    /\ stage = "tables"
    /\ pc = "closed"
    /\ \E w \in Inputs : file' = w
    /\ pc' = "idle"
    /\ UNCHANGED <<compileVars, tables, curstate, stack, lexeme, category, ret,
                   fileAtCall, readSeq, visited, pushedBack>>
    /\ UNCHANGED frontVars
    /\ UNCHANGED objectVars

\* pylex(file, &category) is called: the statements before the do loop.
PylexCall ==
    /\ pc = "idle"
    /\ pc' = "loop"
    /\ lexeme' = <<>>
    /\ stack' = <<>>
    /\ curstate' = 0
    /\ ret' = "none"
    /\ fileAtCall' = file
    /\ readSeq' = <<>>
    /\ visited' = <<>>
    /\ pushedBack' = <<>>
    /\ UNCHANGED <<compileVars, tables, file, category>>
    /\ UNCHANGED frontVars
    /\ UNCHANGED objectVars

\* One round of the do loop: getc, and on a byte append, push, move.
PylexLoop ==
    /\ pc = "loop"
    /\ IF file = <<>>
       THEN /\ pc' = "backtrack"
            /\ UNCHANGED <<file, lexeme, stack, curstate, readSeq, visited>>
       ELSE LET c == Head(file)
            IN /\ file' = Tail(file)
               /\ lexeme' = Append(lexeme, c)
               /\ \E acc \in AcceptingRead(tables, curstate) :
                     stack' = PushStack(stack, acc, curstate)
               /\ curstate' = TransitionsRead(tables, curstate, c)
               /\ readSeq' = Append(readSeq, c)
               /\ visited' = Append(visited, curstate)
               /\ pc' = IF curstate' # -1 THEN "loop" ELSE "backtrack"
    /\ UNCHANGED <<compileVars, tables, category, ret, fileAtCall, pushedBack>>
    /\ UNCHANGED frontVars
    /\ UNCHANGED objectVars

\* One round of the while loop: pop a state and push the last byte back.
\* ungetc can fail once the guaranteed pushback is used up; then the
\* process exits.
PylexBacktrack ==
    /\ pc = "backtrack"
    /\ \E acc \in AcceptingRead(tables, curstate) : acc = 0 /\ stack # <<>>
    /\ curstate' = stack[Len(stack)]
    /\ stack' = SubSeq(stack, 1, Len(stack) - 1)
    /\ lexeme' = SubSeq(lexeme, 1, Len(lexeme) - 1)
    /\ \/ /\ file' = <<lexeme[Len(lexeme)]>> \o file
          /\ pushedBack' = Append(pushedBack, lexeme[Len(lexeme)])
          /\ pc' = "backtrack"
       \/ /\ Len(pushedBack) >= UngetcGuaranteed
          /\ pc' = "exit"
          /\ UNCHANGED <<file, pushedBack>>
    /\ UNCHANGED <<compileVars, tables, category, ret, fileAtCall, readSeq, visited>>
    /\ UNCHANGED frontVars
    /\ UNCHANGED objectVars

\* The while loop ends: set *category_out and return.
PylexReturn ==
    /\ pc = "backtrack"
    /\ \E acc \in AcceptingRead(tables, curstate) :
          /\ ~(acc = 0 /\ stack # <<>>)
          /\ IF acc # 0
             THEN category' = acc /\ ret' = "lexeme"
             ELSE category' = -1 /\ ret' = "NULL"
    /\ pc' = "idle"
    /\ UNCHANGED <<compileVars, tables, file, curstate, stack, lexeme,
                   fileAtCall, readSeq, visited, pushedBack>>
    /\ UNCHANGED frontVars
    /\ UNCHANGED objectVars

Next ==
    \/ AstsToNfa
    \/ RabinScottStart
    \/ RabinScottStep
    \/ RabinScottReturn
    \/ HopcroftStart
    \/ HopcroftRound
    \/ HopcroftReturn
    \/ CreateTable
    \/ Fopen
    \/ PylexCall
    \/ PylexLoop
    \/ PylexBacktrack
    \/ PylexReturn

Spec == Init /\ [][Next]_vars


\* ====================================================== the front end
\* The regex texts read: whole rule files over the characters the parser
\* tells apart, character classes, and escapes.
ParserBytes == {Chr.a, Chr.star, Chr.plus, Chr.pipe, Chr.lparen, Chr.rparen,
                Chr.LF, Chr.backslash, Chr.lbracket, Chr.rbracket}

ClassBytes == {Chr.caret, Chr.rbracket, Chr.hyphen, Chr.backslash, Chr.a,
               Chr.LF, Chr.beyond}

EscapeBytes == {e[1] : e \in _escape_sequence} \cup {Chr.c, Chr.caret, Chr.beyond}

RegexTexts ==
    TextsUpTo(ParserBytes, MaxText)
      \cup {<<Chr.lbracket>> \o b : b \in TextsUpTo(ClassBytes, MaxClass)}
      \cup {<<Chr.backslash, x>> : x \in EscapeBytes}

\* RegexScanner(text), as pylex.py makes it over the rule file.
FrontInit ==
    /\ stage = "text"
    /\ text \in RegexTexts
    /\ input = text
    /\ lexed = <<>>
    /\ parsed = "none"
    /\ asts = <<>>
    /\ nfa = EmptyNFA
    /\ rs = NoRS
    /\ popped = <<>>
    /\ dfas = <<>>
    /\ hop = NoHop
    /\ rounds = 0
    /\ tables = NoTables
    /\ file = <<>>
    /\ pc = "closed"
    /\ curstate = 0
    /\ stack = <<>>
    /\ lexeme = <<>>
    /\ category = 0
    /\ ret = "none"
    /\ fileAtCall = <<>>
    /\ readSeq = <<>>
    /\ visited = <<>>
    /\ pushedBack = <<>>
    /\ NoObjects

\* How many of the calls of lex() so far returned an EOF token.
EOFs == Cardinality({i \in 1..Len(lexed) : lexed[i].token.category = Token.EOF})

\* scanner.lex(), called on the scanner itself.
Lex ==
    /\ stage = "text"
    /\ parsed = "none"
    /\ EOFs < MaxEOF
    /\ \E r \in {lex(input)} :
          /\ input' = r.input
          /\ lexed' = Append(lexed, [raised |-> r.raised, token |-> r.token, before |-> input])
    /\ UNCHANGED <<text, parsed>>
    /\ UNCHANGED <<compileVars, tables, scanVars, objectVars>>

\* asts = RegexParser(scanner).parse_top_level() on a fresh scanner.
ParseTopLevel ==
    /\ stage = "text"
    /\ parsed = "none"
    /\ lexed = <<>>
    /\ \E r \in {parse_top_level(input)} :
          /\ input' = r.input
          /\ parsed' = IF r.raised = "" THEN "ok" ELSE r.raised
          /\ asts' = r.asts
          /\ stage' = IF r.raised = "" THEN "asts" ELSE "failed"
    /\ UNCHANGED <<text, lexed>>
    /\ UNCHANGED <<nfa, rs, popped, dfas, hop, rounds, tables>>
    /\ UNCHANGED <<scanVars, objectVars>>

FrontNext ==
    \/ Lex
    \/ ParseTopLevel
    \/ AstsToNfa

FrontSpec == FrontInit /\ [][FrontNext]_vars



\* ================================== NFAState and DFAState on their own
\* The state classes used directly, as their doctests do: states are made,
\* given transitions, asked for their epsilon closure and put in an
\* automaton, in any order.  nfaStates is an NFA record as above with two
\* more attributes per state: number, and memo, the set holding the value
\* of _epsilon_closure when the attribute exists; dfaStates is a DFA record
\* with number.

\* Automaton._number_states(state, next_number) on states whose targets
\* are targets[s] and whose numbers are st.number: the numbers and the
\* next number it can leave, one for each order in which the for loop can
\* go through the set _all_transitions() returns.
RECURSIVE _number_states(_, _, _)
_number_states(targets, state, st) ==
    IF st.number[state] = None
    THEN LET RECURSIVE loop(_, _)
             loop(T, st1) ==
                 IF T = {} THEN {st1}
                 ELSE UNION {UNION {loop(T \ {t}, st2) : st2 \in _number_states(targets, t, st1)}
                             : t \in T}
         IN loop(targets[state], [number |-> [st.number EXCEPT ![state] = st.next],
                                  next |-> st.next + 1])
    ELSE {st}

\* NFAState._all_transitions and DFAState._all_transitions, as the targets.
NFA_all_targets(o) == [s \in 1..o.n |-> {e[3] : e \in {f \in o.edges : f[1] = s}}]

DFA_all_targets(o) ==
    [s \in 1..o.n |-> {o.transitions[s][c] : c \in DOMAIN o.transitions[s]}]

\* The symbols add_transition is called with.
ObjectSymbols == {None, 0, 1}

ObjectInit ==
    /\ stage \in {"NFAState", "DFAState"}
    /\ nfaStates = [n |-> 0, accepting |-> <<>>, edges |-> {}, number |-> <<>>, memo |-> <<>>]
    /\ dfaStates = [n |-> 0, accepting |-> <<>>, transitions |-> <<>>, number |-> <<>>]
    /\ call = [op |-> "none", count |-> 0]
    /\ asts = <<>>
    /\ nfa = EmptyNFA
    /\ rs = NoRS
    /\ popped = <<>>
    /\ dfas = <<>>
    /\ hop = NoHop
    /\ rounds = 0
    /\ tables = NoTables
    /\ file = <<>>
    /\ pc = "closed"
    /\ curstate = 0
    /\ stack = <<>>
    /\ lexeme = <<>>
    /\ category = 0
    /\ ret = "none"
    /\ fileAtCall = <<>>
    /\ readSeq = <<>>
    /\ visited = <<>>
    /\ pushedBack = <<>>
    /\ NoFront

ObjectFrame == UNCHANGED <<compileVars, tables, scanVars, frontVars>>

Called(op, self, symbol, to, raised) ==
    call' = [op |-> op, self |-> self, symbol |-> symbol, to |-> to,
             raised |-> raised, count |-> call.count + 1]

\* NFAState()
NewNFAState ==
    /\ stage = "NFAState"
    /\ call.count < MaxCalls
    /\ nfaStates.n < MaxObjects
    /\ nfaStates' = [NFAState(nfaStates) EXCEPT !.number = Append(@, None),
                                                !.memo = Append(@, {})]
    /\ Called("NFAState", nfaStates.n + 1, None, None, "")
    /\ UNCHANGED dfaStates
    /\ ObjectFrame

\* self.add_transition(symbol, to) on an NFAState: the memo is deleted
\* and the target added.
NFAStateAddTransition ==
    /\ stage = "NFAState"
    /\ call.count < MaxCalls
    /\ \E self, to \in 1..nfaStates.n : \E symbol \in ObjectSymbols \ {1} :
          /\ nfaStates' = [NFA_add_transition(nfaStates, self, symbol, to)
                             EXCEPT !.memo[self] = {}]
          /\ Called("add_transition", self, symbol, to, "")
    /\ UNCHANGED dfaStates
    /\ ObjectFrame

\* self.epsilon_closure() on an NFAState: the memo when there is one,
\* else the closure computed, which becomes the memo.
NFAStateEpsilonClosure ==
    /\ stage = "NFAState"
    /\ call.count < MaxCalls
    /\ \E self \in 1..nfaStates.n :
          LET value == IF nfaStates.memo[self] # {} THEN The(nfaStates.memo[self])
                       ELSE epsilon_closure(nfaStates, self)
          IN /\ nfaStates' = [nfaStates EXCEPT !.memo[self] = {value}]
             /\ Called("epsilon_closure", self, None, value, "")
    /\ UNCHANGED dfaStates
    /\ ObjectFrame

\* NFA(initial): Automaton.__init__ numbers the states.
NewNFA ==
    /\ stage = "NFAState"
    /\ call.count < MaxCalls
    /\ \E initial \in 1..nfaStates.n :
       \E st \in _number_states(NFA_all_targets(nfaStates), initial,
                                [number |-> nfaStates.number, next |-> 0]) :
          /\ nfaStates' = [nfaStates EXCEPT !.number = st.number]
          /\ Called("NFA", initial, None, st.next, "")
    /\ UNCHANGED dfaStates
    /\ ObjectFrame

\* DFAState()
NewDFAState ==
    /\ stage = "DFAState"
    /\ call.count < MaxCalls
    /\ dfaStates.n < MaxObjects
    /\ dfaStates' = [DFAState(dfaStates, None) EXCEPT !.number = Append(@, None)]
    /\ Called("DFAState", dfaStates.n + 1, None, None, "")
    /\ UNCHANGED nfaStates
    /\ ObjectFrame

\* self.add_transition(symbol, to) on a DFAState: an assertion fails, or
\* the transition is added.
DFAStateAddTransition ==
    /\ stage = "DFAState"
    /\ call.count < MaxCalls
    /\ \E self, to \in 1..dfaStates.n : \E symbol \in ObjectSymbols :
          /\ dfaStates' = DFA_add_transition(dfaStates, self, symbol, to)
          /\ Called("add_transition", self, symbol, to,
                    IF DFA_add_transition_ok(dfaStates, self, symbol)
                    THEN "" ELSE "AssertionError")
    /\ UNCHANGED nfaStates
    /\ ObjectFrame

\* DFA(initial): Automaton.__init__ numbers the states.
NewDFA ==
    /\ stage = "DFAState"
    /\ call.count < MaxCalls
    /\ \E initial \in 1..dfaStates.n :
       \E st \in _number_states(DFA_all_targets(dfaStates), initial,
                                [number |-> dfaStates.number, next |-> 0]) :
          /\ dfaStates' = [dfaStates EXCEPT !.number = st.number]
          /\ Called("DFA", initial, None, st.next, "")
    /\ UNCHANGED nfaStates
    /\ ObjectFrame

ObjectNext ==
    \/ NewNFAState
    \/ NFAStateAddTransition
    \/ NFAStateEpsilonClosure
    \/ NewNFA
    \/ NewDFAState
    \/ DFAStateAddTransition
    \/ NewDFA

ObjectSpec == ObjectInit /\ [][ObjectNext]_vars


\* ========================================== the stages on the objects
\* The compiler's stages on the state objects themselves: nfaStates and
\* dfaStates hold every NFAState and DFAState object made, with its number
\* and (NFAState) its _epsilon_closure, so that what a stage writes to an
\* object it was handed is seen.
HeapRulesets == UNION {RulesetsOfSize(n) : n \in 0..MaxHeapNodes}

\* The NFAState objects asts_to_nfa() has made when it calls NFA(initial).
HeapNFA(list) ==
    The({ [n |-> a.n, accepting |-> a.accepting, edges |-> a.edges,
           number |-> [s \in 1..a.n |-> None], memo |-> [s \in 1..a.n |-> {}]]
        : a \in {asts_to_nfa(list)} })

\* The DFA whose initial state is the object i.
HeapDFA(h, i) ==
    [n |-> h.n, accepting |-> h.accepting, transitions |-> h.transitions, initial |-> i]

\* DFAState(accepting), as a new object.
HeapDFAState(h, accepting) == [DFAState(h, accepting) EXCEPT !.number = Append(@, None)]

\* s.epsilon_closure() for each state s of S: the union of the sets
\* returned (the memo where there is one), and the objects with the memos
\* the calls leave.
heap_closures(h, S) ==
    [value |-> UNION {IF h.memo[s] # {} THEN The(h.memo[s]) ELSE epsilon_closure(h, s) : s \in S},
     heap |-> [h EXCEPT !.memo = [s \in DOMAIN @ |->
                                     IF s \in S /\ @[s] = {} THEN {epsilon_closure(h, s)}
                                     ELSE @[s]]]]

\* NFA._delta_closure(q, c)
heap_delta_closure(h, q, c) ==
    heap_closures(h, UNION {NFATargets(h, state, c) : state \in q})

\* _rabin_scott with Q as the dict from configurations to DFAState objects:
\* the k-th configuration entered maps to the object st.ref[k].
heap_rabin_scott_symbol(st, q, symbol) ==
    The({ IF c.value = {} THEN [st EXCEPT !.nfa = c.heap]
          ELSE IF c.value \in Range(st.Q)
          THEN [st EXCEPT !.nfa = c.heap,
                          !.dfa = DFA_add_transition(@, st.ref[QIndex(st.Q, q)], symbol,
                                                     st.ref[QIndex(st.Q, c.value)])]
          ELSE The({ [st EXCEPT !.nfa = c.heap,
                                !.Q = Append(@, c.value),
                                !.ref = Append(@, d2.n),
                                !.worklist = Append(@, c.value),
                                !.dfa = DFA_add_transition(d2, st.ref[QIndex(st.Q, q)], symbol, d2.n)]
                   : d2 \in {HeapDFAState(st.dfa, _configuration_accepting(st.nfa, c.value))} })
        : c \in {heap_delta_closure(st.nfa, q, symbol)} })

RECURSIVE heap_rabin_scott_symbols(_, _, _)
heap_rabin_scott_symbols(st, q, i) ==
    IF i > NUM_SYMBOLS THEN st
    ELSE heap_rabin_scott_symbols(heap_rabin_scott_symbol(st, q, SIGMA[i]), q, i + 1)

RECURSIVE heap_rabin_scott(_)
heap_rabin_scott(st) ==
    IF st.worklist = <<>> THEN st
    ELSE heap_rabin_scott(
             heap_rabin_scott_symbols([st EXCEPT !.worklist = SubSeq(@, 1, Len(@) - 1)],
                                      st.worklist[Len(st.worklist)], 1))

\* NFA.to_dfa() up to DFA(Q[q0]): the objects it leaves; the state Q[q0]
\* is the object ref[1].
heap_to_dfa(nfaH, dfaH, initial) ==
    The({ The({ heap_rabin_scott([nfa |-> c0.heap, dfa |-> d0, Q |-> <<c0.value>>,
                                  ref |-> <<d0.n>>, worklist |-> <<c0.value>>])
              : d0 \in {HeapDFAState(dfaH, _configuration_accepting(nfaH, c0.value))} })
        : c0 \in {heap_closures(nfaH, {initial})} })

\* The values P can have when "while P != T" of DFA._hopcroft ends.
RECURSIVE hopcroft_fixpoints(_, _, _)
hopcroft_fixpoints(dfa, P, T) ==
    IF P = T THEN {P}
    ELSE UNION {hopcroft_fixpoints(dfa, T, T2) : T2 \in RefinedPartitions(dfa, T)}

\* aux(subset) of DFA._hopcroft with dfa_states as the dict from subsets
\* to DFAState objects: the k-th subset entered maps to the object
\* st.ref[k].  The states read and the states made are in st.dfa.
RECURSIVE heap_hopcroft_aux(_, _, _, _)
RECURSIVE heap_hopcroft_aux_items(_, _, _, _, _, _)
heap_hopcroft_aux(P, rep, subset, st) ==
    The({ heap_hopcroft_aux_items(P, rep, subset, rep[subset],
                                  DictKeys(DOMAIN st.dfa.transitions[rep[subset]]),
                                  [subsets |-> Append(st.subsets, subset),
                                   ref |-> Append(st.ref, d1.n), dfa |-> d1])
        : d1 \in {HeapDFAState(st.dfa, st.dfa.accepting[rep[subset]])} })

heap_hopcroft_aux_items(P, rep, subset, state, items, st) ==
    IF items = <<>> THEN st
    ELSE LET symbol == Head(items)
             target_subset == BlockOf(P, st.dfa.transitions[state][symbol])
         IN The({ heap_hopcroft_aux_items(P, rep, subset, state, Tail(items),
                      [st1 EXCEPT !.dfa = DFA_add_transition(@,
                                              st1.ref[QIndex(st1.subsets, subset)], symbol,
                                              st1.ref[QIndex(st1.subsets, target_subset)])])
                : st1 \in {IF target_subset \in Range(st.subsets) THEN st
                           ELSE heap_hopcroft_aux(P, rep, target_subset, st)} })

\* Mutant: the DFA is minimized in place: the representative of a block
\* stands for the block, and the transitions of the states are turned to
\* the representatives.
heap_minimized_InPlace(h, src, P, rep) ==
    [dfa |-> [h EXCEPT !.transitions =
                 [s \in DOMAIN @ |->
                     IF \E p \in P : s \in p
                     THEN [c \in DOMAIN @[s] |-> rep[BlockOf(P, @[s][c])]]
                     ELSE @[s]]],
     initial |-> rep[BlockOf(P, src)]]

\* DFA._hopcroft from "dfa_states = {}" to aux(initial_subset), for the
\* DFA whose initial state is the object src: the objects it leaves and
\* the initial state of the new DFA.
heap_minimized(h, src, P, rep) ==
    The({ [dfa |-> st.dfa, initial |-> st.ref[1]]
        : st \in {heap_hopcroft_aux(P, rep, BlockOf(P, src),
                                    [subsets |-> <<>>, ref |-> <<>>, dfa |-> h])} })

HeapInit ==
    /\ stage = "heap_asts"
    /\ asts \in HeapRulesets
    /\ nfaStates = [n |-> 0, accepting |-> <<>>, edges |-> {}, number |-> <<>>, memo |-> <<>>]
    /\ dfaStates = [n |-> 0, accepting |-> <<>>, transitions |-> <<>>, number |-> <<>>]
    /\ call = [op |-> "none", dfas |-> <<>>]
    /\ nfa = EmptyNFA
    /\ rs = NoRS
    /\ popped = <<>>
    /\ dfas = <<>>
    /\ hop = NoHop
    /\ rounds = 0
    /\ tables = NoTables
    /\ file = <<>>
    /\ pc = "closed"
    /\ curstate = 0
    /\ stack = <<>>
    /\ lexeme = <<>>
    /\ category = 0
    /\ ret = "none"
    /\ fileAtCall = <<>>
    /\ readSeq = <<>>
    /\ visited = <<>>
    /\ pushedBack = <<>>
    /\ NoFront

HeapFrame == UNCHANGED <<asts, nfa, rs, popped, dfas, hop, rounds, scanVars, frontVars>>

\* nfa = asts_to_nfa(asts): the states are made and wired, and NFA(initial)
\* numbers them.
HeapAstsToNfa ==
    /\ stage = "heap_asts"
    /\ \E h \in {HeapNFA(asts)} :
       \E st \in _number_states(NFA_all_targets(h), 1, [number |-> h.number, next |-> 0]) :
          nfaStates' = [h EXCEPT !.number = st.number]
    /\ call' = [op |-> "asts_to_nfa", dfas |-> <<>>]
    /\ stage' = "heap_nfa"
    /\ UNCHANGED <<dfaStates, tables>>
    /\ HeapFrame

\* dfa = nfa.to_dfa(): epsilon closures are memoized in the NFA states,
\* DFA states are made and wired, and DFA(Q[q0]) numbers them.
HeapToDfa ==
    /\ stage = "heap_nfa"
    /\ \E r \in {heap_to_dfa(nfaStates, dfaStates, 1)} :
       \E st \in _number_states(DFA_all_targets(r.dfa), r.ref[1],
                                [number |-> r.dfa.number, next |-> 0]) :
          /\ nfaStates' = r.nfa
          /\ dfaStates' = [r.dfa EXCEPT !.number = st.number]
          /\ call' = [op |-> "to_dfa", dfas |-> <<r.ref[1]>>]
    /\ stage' = "heap_dfa"
    /\ UNCHANGED tables
    /\ HeapFrame

\* min_dfa = dfa.minimized(), as main() calls it once on the DFA of
\* to_dfa(): new DFA states are made and wired, and DFA(...) numbers them.
HeapMinimized ==
    /\ stage = "heap_dfa"
    /\ Len(call.dfas) = 1
    /\ \E d \in {HeapDFA(dfaStates, call.dfas[1])} :
       \E P \in hopcroft_fixpoints(d, {}, _initial_partition(d)) :
       \E rep \in Representatives(d, P) :
       \E r \in {heap_minimized(dfaStates, call.dfas[1], P, rep)} :
       \E st \in _number_states(DFA_all_targets(r.dfa), r.initial,
                                [number |-> r.dfa.number, next |-> 0]) :
          /\ dfaStates' = [r.dfa EXCEPT !.number = st.number]
          /\ call' = [op |-> "minimized", dfas |-> Append(call.dfas, r.initial)]
    /\ UNCHANGED <<stage, nfaStates, tables>>
    /\ HeapFrame

\* TableDrivenScannerGenerator(min_dfa): the two lists are filled.
HeapCreateTable ==
    /\ stage = "heap_dfa"
    /\ Len(call.dfas) = 2
    /\ tables' = ScannerGenerator(HeapDFA(dfaStates, call.dfas[2]))
    /\ call' = [op |-> "scangen", dfas |-> call.dfas]
    /\ stage' = "heap_tables"
    /\ UNCHANGED <<nfaStates, dfaStates>>
    /\ HeapFrame

HeapNext ==
    \/ HeapAstsToNfa
    \/ HeapToDfa
    \/ HeapMinimized
    \/ HeapCreateTable

HeapSpec == HeapInit /\ [][HeapNext]_vars


\* ================================================================ claims
Max(S) == CHOOSE x \in S : \A y \in S : x >= y

\* pylex() has returned and has not been called again.
Returned == pc = "idle" /\ ret # "none"

\* The rules that match w, and the lengths of the prefixes of w that some
\* rule matches, by the language of the ASTs.
RulesMatching(w) == {i \in 1..Len(asts) : Matches(asts[i], w)}

MatchedPrefixes(w) == {k \in 0..Len(w) : RulesMatching(SubSeq(w, 1, k)) # {}}

LongestMatch(w) == SubSeq(w, 1, Max(MatchedPrefixes(w)))

\* C1: whenever pylex() has returned from a call on an input w of which some
\* prefix is matched by a rule, the lexeme returned is the longest such
\* prefix and *category_out is the smallest ID of the rules matching it.
C1_MaximalMunch ==
    (Returned /\ MatchedPrefixes(fileAtCall) # {}) =>
        /\ ret = "lexeme"
        /\ lexeme = LongestMatch(fileAtCall)
        /\ category = Min(RulesMatching(LongestMatch(fileAtCall)))

\* C2: pylex() returns NULL with *category_out = -1 exactly when no prefix
\* of the input (the empty one included) is matched by a rule; otherwise it
\* returns a lexeme and *category_out is accepting[curstate], a positive ID.
C2_NullIffNoMatch ==
    Returned =>
        /\ (ret = "NULL" /\ category = -1) <=> (MatchedPrefixes(fileAtCall) = {})
        /\ ret # "NULL" =>
              /\ curstate \in 0..(Len(tables.accepting) - 1)
              /\ category = tables.accepting[curstate + 1]
              /\ category > 0
\* The index in visited of the last accepting state met before a byte was
\* read, 1 when there is none.
LastAccepting ==
    LET acc == {i \in 1..Len(visited) : tables.accepting[visited[i] + 1] # 0}
    IN IF acc = {} THEN 1 ELSE Max(acc)

\* The length of the lexeme of the call that has returned, 0 when it failed.
LexemeLength == IF ret = "lexeme" THEN Len(lexeme) ELSE 0

\* C3: while pylex() runs the backtrack stack holds the states visited since
\* the last accepting state, one per byte read since then and not yet pushed
\* back; when it returns after n bytes with a lexeme of length m, ungetc has
\* taken the last n-m bytes read, last one first, and the file is at the
\* first byte after the lexeme.
C3_PushBack ==
    /\ pc \in {"loop", "backtrack"} =>
          stack = SubSeq(visited, LastAccepting, Len(visited) - Len(pushedBack))
    /\ Returned =>
          /\ pushedBack = Reverse(SubSeq(readSeq, LexemeLength + 1, Len(readSeq)))
          /\ file = SubSeq(fileAtCall, LexemeLength + 1, Len(fileAtCall))

\* C3 witness: a call has returned a non-empty lexeme after it had read
\* past it and pushed the extra byte back.
C3_Witness ==
    Returned /\ ret = "lexeme" /\ Len(lexeme) >= 1 /\ Len(pushedBack) >= 1

\* The state a DFA is in after w from s, None when a transition is missing.
RECURSIVE Run(_, _, _)
Run(dfa, s, w) ==
    IF w = <<>> \/ s = None THEN s
    ELSE Run(dfa, DFAGet(dfa, s, Head(w)), Tail(w))

\* What is observed of a DFA after w from s: None when the run is dead,
\* otherwise the accepting ID of the state reached (0 for none).
Outcome(dfa, s, w) ==
    LET r == Run(dfa, s, w)
    IN IF r = None THEN None
       ELSE IF dfa.accepting[r] = None THEN 0 ELSE dfa.accepting[r]

\* Some string tells the states p and q of a DFA apart.  Strings no longer
\* than the DFA has states are enough.
Distinguishable(dfa, p, q) ==
    \E w \in StringsUpTo(dfa.n) : Outcome(dfa, p, w) # Outcome(dfa, q, w)

\* C4: in every DFA minimized() has returned, any two distinct states are
\* told apart by their accepting IDs or by some string.
C4_Minimal ==
    \A k \in 2..Len(dfas) :
        \A p, q \in 1..dfas[k].n : p # q => Distinguishable(dfas[k], p, q)

\* C5: when minimized() returns, the DFA D it was called on and the DFA it
\* returns agree on every string (here: of up to one symbol more than D
\* has states): both runs are dead, or both end with the same accepting
\* ID, or both end in states that do not accept.
C5_SameLanguage ==
    (stage = "dfa" /\ Len(dfas) >= 2) =>
        LET D == dfas[Len(dfas) - 1]
            M == dfas[Len(dfas)]
        IN \A w \in StringsUpTo(D.n + 1) :
               Outcome(M, M.initial, w) = Outcome(D, D.initial, w)

\* C5 witness: minimized() has returned a DFA with fewer states for a DFA
\* that has accepting and non-accepting states and missing transitions.
C5_Witness ==
    /\ stage = "dfa" /\ Len(dfas) >= 2
    /\ dfas[2].n < dfas[1].n
    /\ {None, 1} \subseteq Range(dfas[2].accepting)
    /\ \E w \in StringsUpTo(dfas[1].n) : Outcome(dfas[1], 1, w) = None

\* f maps the DFA a onto the DFA b, keeping initial state, accepting IDs and
\* transitions.
IsIsomorphism(a, b, f) ==
    /\ \A x, y \in 1..a.n : x # y => f[x] # f[y]
    /\ f[a.initial] = b.initial
    /\ \A x \in 1..a.n :
          /\ b.accepting[f[x]] = a.accepting[x]
          /\ DOMAIN b.transitions[f[x]] = DOMAIN a.transitions[x]
          /\ \A c \in DOMAIN a.transitions[x] : b.transitions[f[x]][c] = f[a.transitions[x][c]]

Isomorphic(a, b) ==
    a.n = b.n /\ \E f \in [1..a.n -> 1..b.n] : IsIsomorphism(a, b, f)

\* C6: the DFA minimized() returns for a DFA that minimized() has returned
\* is isomorphic to it.
C6_Idempotent ==
    \A k \in 3..Len(dfas) : Isomorphic(dfas[k - 1], dfas[k])

\* The epsilon closure of a set of NFA states, as the least set that
\* holds it and is closed under epsilon transitions.
RECURSIVE EpsilonClosed(_, _)
EpsilonClosed(n, S) ==
    LET S2 == S \cup {e[3] : e \in {f \in n.edges : f[1] \in S /\ f[2] = None}}
    IN IF S2 = S THEN S ELSE EpsilonClosed(n, S2)

Move(n, S, c) == {e[3] : e \in {f \in n.edges : f[1] \in S /\ f[2] = c}}

\* The NFA states reachable on w, epsilon moves included.
RECURSIVE NFAReach(_, _, _)
NFAReach(n, S, w) ==
    IF w = <<>> THEN EpsilonClosed(n, S)
    ELSE NFAReach(n, Move(n, EpsilonClosed(n, S), Head(w)), Tail(w))

\* The smallest accepting ID in a set of NFA states, None when there is none.
MinAccepting(n, S) ==
    LET ids == {n.accepting[s] : s \in S} \ {None}
    IN IF ids = {} THEN None ELSE Min(ids)

\* to_dfa() has just returned.
ToDfaReturned == stage = "dfa" /\ Len(dfas) = 1

\* The strings the NFA and its DFA are compared on: up to one symbol more
\* than the DFA has states.
Words == StringsUpTo(rs.dfa.n + 1)

\* C7: the DFA of to_dfa() has a run on w exactly when the NFA reaches some
\* state on w, and the state it reaches has the smallest accepting ID of
\* the NFA states reached (none when none of them accepts).
C7_SubsetEquivalent ==
    ToDfaReturned =>
        \A w \in Words :
            LET R == NFAReach(nfa, {nfa.initial}, w)
                d == Run(dfas[1], dfas[1].initial, w)
            IN /\ (d # None) <=> (R # {})
               /\ d # None => dfas[1].accepting[d] = MinAccepting(nfa, R)

\* C7 witness: to_dfa() has returned for an NFA that reaches, on some
\* input, both an accepting and a non-accepting set of states, and on
\* some input no state at all.
C7_Witness ==
    /\ ToDfaReturned
    /\ \E w \in Words : NFAReach(nfa, {nfa.initial}, w) = {}
    /\ \E w \in Words : MinAccepting(nfa, NFAReach(nfa, {nfa.initial}, w)) = 2
    /\ \E w \in Words : /\ NFAReach(nfa, {nfa.initial}, w) # {}
                         /\ MinAccepting(nfa, NFAReach(nfa, {nfa.initial}, w)) = None

\* C8: every DFA state the subset construction has made for a configuration
\* T has the smallest accepting ID of the accepting NFA states of T, and
\* none when T has no accepting NFA state.
C8_AcceptMin ==
    \A i \in 1..Len(rs.Q) :
        LET ids == {nfa.accepting[s] : s \in {x \in rs.Q[i] : nfa.accepting[x] # None}}
        IN /\ ids = {} => rs.dfa.accepting[i] = None
           /\ ids # {} => /\ rs.dfa.accepting[i] \in ids
                          /\ \A id \in ids : rs.dfa.accepting[i] <= id

\* C8 witness: a DFA state has been made for a configuration that holds
\* accepting NFA states of two rules.
C8_Witness ==
    \E i \in 1..Len(rs.Q) : Cardinality({nfa.accepting[s] : s \in rs.Q[i]} \ {None}) >= 2

\* C9: every configuration with a DFA state is closed under epsilon
\* transitions; once the worklist loop has gone through SIGMA for it, its
\* DFA state has a c-transition exactly when the closure of move(T, c) is
\* not empty, and the target is the DFA state of that configuration.
C9_SubsetClosure ==
    \A i \in 1..Len(rs.Q) :
        /\ rs.Q[i] = EpsilonClosed(nfa, rs.Q[i])
        /\ rs.Q[i] \in Range(popped) =>
              \A c \in Symbols :
                  LET M == EpsilonClosed(nfa, Move(nfa, rs.Q[i], c))
                  IN IF M = {}
                     THEN c \notin DOMAIN rs.dfa.transitions[i]
                     ELSE /\ c \in DOMAIN rs.dfa.transitions[i]
                          /\ rs.Q[rs.dfa.transitions[i][c]] = M

\* C9 witness: the loop is done and some configuration has a transition
\* to a configuration that epsilon moves have enlarged, and lacks one on
\* another symbol.
C9_Witness ==
    /\ ToDfaReturned
    /\ \E i \in 1..Len(rs.Q) : \E c, d \in Symbols :
          /\ d \notin DOMAIN rs.dfa.transitions[i]
          /\ c \in DOMAIN rs.dfa.transitions[i]
          /\ rs.Q[rs.dfa.transitions[i][c]] # Move(nfa, rs.Q[i], c)

\* No configuration has been taken from the worklist twice.
PoppedOnce == \A i, j \in 1..Len(popped) : i # j => popped[i] # popped[j]

\* The refinement loop has made no more rounds than the DFA has states.
RoundsBounded == stage = "hopcroft" => rounds <= Cardinality(DFAStates(Source))

\* C10: to_dfa() and minimized() terminate: the worklist loop takes no
\* configuration twice (and there are finitely many), and the refinement
\* loop never makes more rounds than the DFA has states.
C10_Terminates == PoppedOnce /\ RoundsBounded

\* C10 witness: both loops have ended after several rounds each.
C10_Witness ==
    stage = "dfa" /\ Len(dfas) >= 2 /\ Len(popped) >= 3 /\ rounds >= 2

\* ------------------------------------------------ C11 .. C20
\* The step is a call of add_transition on the state self.
AddTransitionOn(self) == call'.op = "add_transition" /\ call'.self = self

\* The state self has a number before the step.
Numbered(self) ==
    IF stage = "NFAState" THEN nfaStates.number[self] # None
                          ELSE dfaStates.number[self] # None

\* The step leaves the transitions of every state as they were.
TransitionsUnchanged ==
    /\ nfaStates'.edges = nfaStates.edges
    /\ dfaStates'.transitions = dfaStates.transitions

\* C11: a call of add_transition on a state that an automaton has numbered
\* raises an error and leaves the transitions of the state unchanged.
C11_FrozenOnceNumbered ==
    [][\A self \in 1..MaxObjects :
          (AddTransitionOn(self) /\ Numbered(self)) =>
              (call'.raised # "" /\ TransitionsUnchanged)]_vars

\* C12: a call of DFAState.add_transition with the symbol None, or with a
\* symbol the state has a transition on, raises AssertionError and leaves
\* the transitions unchanged; so no call gives a state an epsilon
\* transition or changes the target a state has on a symbol.
C12_DFAStateAssertions ==
    [][(stage = "DFAState" /\ call'.op = "add_transition") =>
          LET old == dfaStates.transitions
              new == dfaStates'.transitions
          IN /\ (call'.symbol = None \/ call'.symbol \in DOMAIN old[call'.self]) =>
                    (call'.raised = "AssertionError" /\ new = old)
             /\ \A s \in 1..Len(new) : None \notin DOMAIN new[s]
             /\ \A s \in 1..Len(old) : \A c \in DOMAIN old[s] : new[s][c] = old[s][c]]_vars

\* C12 witness: a call that asked for a second, different target on a
\* symbol has raised AssertionError.
C12_Witness ==
    /\ stage = "DFAState"
    /\ call.op = "add_transition"
    /\ call.raised = "AssertionError"
    /\ call.symbol # None
    /\ dfaStates.transitions[call.self][call.symbol] # call.to

\* The text t is one regex on one line and the parser returns its AST.
ParsesToOne(t) ==
    /\ Chr.LF \notin Range(t)
    /\ \E r \in {parse_top_level(t)} : r.raised = "" /\ Len(r.asts) = 1

\* The text x is one term of the grammar: a plain symbol, an escape, or a
\* regex in parentheses.
IsTermText(x) ==
    \/ Len(x) = 1 /\ _char_to_category(x) = Token.SYMBOL
                  /\ x[1] \notin {Chr.backslash, Chr.lbracket}
    \/ Len(x) = 2 /\ x[1] = Chr.backslash
    \/ /\ Len(x) >= 3
       /\ x[1] = Chr.lparen
       /\ x[Len(x)] = Chr.rparen
       /\ ParsesToOne(SubSeq(x, 2, Len(x) - 1))

\* parse_top_level() has been called on the text.
Parsed == parsed # "none"

\* The text without its last character.
TextFront == SubSeq(text, 1, Len(text) - 1)

\* C13: when the text is a term x followed by '+', parse_top_level()
\* returns one AST, and it matches the strings Concat(x, Kleene(x)) matches.
C13_PlusParses ==
    (Parsed /\ Len(text) >= 2 /\ text[Len(text)] = Chr.plus /\ IsTermText(TextFront)) =>
        /\ parsed = "ok"
        /\ Len(asts) = 1
        /\ \E x \in {parse_top_level(TextFront).asts[1]} :
              \A w \in TextsUpTo(Range(text) \ {Chr.plus}, 3) :
                 Matches(asts[1], w) <=> Matches(ConcatenationAST(x, KleeneAST(x)), w)

\* The text is one character class and nothing else; its token.
IsClassText(t) ==
    \E r \in {lex(t)} : r.raised = "" /\ r.token.category = Token.CHARCLASS /\ r.input = <<>>

ClassOf(t) == lex(t).token.char_class

\* The strings the leaf of a class is tried on.
ClassWords == TextsUpTo({Chr.a, Chr.rbracket, Chr.LF}, 2)

\* C14: parse_top_level() raises 'expected regex term' exactly when the
\* token at a term position is none of SYMBOL, CHARCLASS and LPAREN (it
\* does at the start of a line), and a character class, alone or after a
\* symbol, parses to an AST that matches exactly the symbols of its set.
C14_TermErrors ==
    Parsed =>
        /\ parsed = "expected regex term" =>
              parse_top_level(text).tok.category
                 \notin {Token.SYMBOL, Token.CHARCLASS, Token.LPAREN}
        /\ (text # <<>> /\ text[1] \in {Chr.star, Chr.plus, Chr.pipe, Chr.rparen}) =>
              parsed = "expected regex term"
        /\ IsClassText(text) =>
              /\ parsed = "ok"
              /\ Len(asts) = 1
              /\ \A w \in ClassWords :
                    Matches(asts[1], w) <=> (Len(w) = 1 /\ w[1] \in ClassOf(text))
        /\ (Len(text) >= 2 /\ text[1] = Chr.a /\ IsClassText(Tail(text))) =>
              /\ parsed = "ok"
              /\ Len(asts) = 1
              /\ \A w \in ClassWords :
                    Matches(asts[1], w) <=>
                       (Len(w) = 2 /\ w[1] = Chr.a /\ w[2] \in ClassOf(Tail(text)))

\* The categories of the tokens lex() returns on the text t up to its
\* end, EOF left out; <<None>> at the end when a call raises an error.
RECURSIVE LexAll(_)
LexAll(t) ==
    The({ IF r.raised # "" THEN <<None>>
          ELSE IF r.token.category = Token.EOF THEN <<>>
          ELSE <<r.token.category>> \o LexAll(r.input)
        : r \in {lex(t)} })

\* LPAREN tokens less RPAREN tokens among toks[i .. k].
RECURSIVE Depth(_, _, _)
Depth(toks, i, k) ==
    IF k < i THEN 0
    ELSE Depth(toks, i, k - 1)
           + (IF toks[k] = Token.LPAREN THEN 1 ELSE IF toks[k] = Token.RPAREN THEN -1 ELSE 0)

\* The index of the last token of the line the token i is on.
LineEnd(toks, i) ==
    Min({k \in i..Len(toks) : k = Len(toks) \/ toks[k + 1] = Token.EOL})

\* Some '(' of the token list has no matching ')' on its line.
HasUnmatchedLParen(toks) ==
    \E i \in 1..Len(toks) :
        /\ toks[i] = Token.LPAREN
        /\ \A k \in i..LineEnd(toks, i) : Depth(toks, i, k) >= 1

\* The text is lexed without error and has an unmatched '('.
UnmatchedText == \E toks \in {LexAll(text)} : None \notin Range(toks) /\ HasUnmatchedLParen(toks)

RECURSIVE SplitLines(_)
SplitLines(t) ==
    IF Chr.LF \notin Range(t) THEN <<t>>
    ELSE LET k == Min({i \in 1..Len(t) : t[i] = Chr.LF})
         IN <<SubSeq(t, 1, k - 1)>> \o SplitLines(SubSeq(t, k + 1, Len(t)))

NonBlankLines(t) == SelectSeq(SplitLines(t), LAMBDA l : l # <<>>)

\* The exit states of the fragments asts_to_nfa() builds, in list order.
RECURSIVE ExitStates(_, _, _)
ExitStates(list, i, n) ==
    IF i > Len(list) THEN <<>>
    ELSE The({ <<a.accepting>> \o ExitStates(list, i + 1, a.nfa)
             : a \in {_thompson(list[i], n)} })

\* The list is the parse of the non-blank lines of the text, one AST each.
OneASTPerLine(list, lines) ==
    /\ Len(list) = Len(lines)
    /\ \A i \in 1..Len(lines) : parse_top_level(lines[i]).asts = <<list[i]>>

\* The state s of the NFA has the accepting ID i exactly when it is the
\* i-th exit state.
IDsAtExits(exits) ==
    \A s \in 1..nfa.n :
        /\ \A i \in 1..Len(exits) : exits[i] = s => nfa.accepting[s] = i
        /\ s \notin Range(exits) => nfa.accepting[s] = None

\* C16: when parse_top_level() returns, its list holds one AST per non-blank
\* line of the text, in the order of the lines, and after asts_to_nfa() the
\* exit state of the i-th AST has the accepting ID i and no other state has
\* an accepting ID.
C16_RuleIDs ==
    /\ parsed = "ok" => OneASTPerLine(asts, NonBlankLines(text))
    /\ (parsed = "ok" /\ stage = "nfa") =>
          IDsAtExits(ExitStates(asts, 1, NFAState(EmptyNFA)))

\* The i-th direct call of lex() returned an EOF token.
ReturnedEOF(i) == lexed[i].raised = "" /\ lexed[i].token.category = Token.EOF

\* C17: once a call of lex() has returned an EOF token, every later call
\* of lex() on the same scanner returns an EOF token.
C17_EOFSticks ==
    \A i, j \in 1..Len(lexed) : (i < j /\ ReturnedEOF(i)) => ReturnedEOF(j)

\* C17 witness: a scanner over a text of several tokens, called twice
\* more after its first EOF token.
C17_Witness ==
    /\ Len(text) >= 2
    /\ Len(lexed) >= 5
    /\ ReturnedEOF(Len(lexed) - 2)
    /\ ReturnedEOF(Len(lexed))
    /\ ~ReturnedEOF(1)

\* The character an escaped byte stands for: the control characters of
\* \0 \a \b \t \n \v \f \r, and the byte itself otherwise.
Escaped(c) ==
    CASE c = Chr.zero -> Chr.NUL
      [] c = Chr.a -> Chr.BEL
      [] c = Chr.b -> Chr.BS
      [] c = Chr.t -> Chr.TAB
      [] c = Chr.n -> Chr.LF
      [] c = Chr.v -> Chr.VT
      [] c = Chr.f -> Chr.FF
      [] c = Chr.r -> Chr.CR
      [] OTHER -> c

\* The i-th direct call of lex() began at a backslash.
AtBackslash(i) == lexed[i].before # <<>> /\ Head(lexed[i].before) = Chr.backslash

\* The i-th direct call of lex() returned the token SYMBOL(c).
ReturnedSymbol(i, c) ==
    /\ lexed[i].raised = ""
    /\ lexed[i].token.category = Token.SYMBOL
    /\ lexed[i].token.symbol = c

\* C18 as claimed: a call of lex() at a backslash raises 'trailing
\* backslash' when nothing follows, and returns SYMBOL of the escaped
\* character for whatever byte follows.
C18_Escapes ==
    \A i \in 1..Len(lexed) :
        AtBackslash(i) =>
            IF Len(lexed[i].before) = 1
            THEN lexed[i].raised = "trailing backslash"
            ELSE ReturnedSymbol(i, Escaped(lexed[i].before[2]))

\* C18 as amended: the same for a following byte of the alphabet; for a
\* byte outside the alphabet the call fails and returns no token.
C18_EscapesInAlphabet ==
    \A i \in 1..Len(lexed) :
        AtBackslash(i) =>
            IF Len(lexed[i].before) = 1
            THEN lexed[i].raised = "trailing backslash"
            ELSE IF lexed[i].before[2] \in TextSIGMA
            THEN /\ ReturnedSymbol(i, Escaped(lexed[i].before[2]))
                 /\ i < Len(lexed) => lexed[i + 1].before = Tail(Tail(lexed[i].before))
            ELSE lexed[i].raised = "AssertionError" /\ lexed[i].token = NoToken

\* C18 witness: the text \n lexed to the newline symbol.
C18_Witness ==
    /\ text = <<Chr.backslash, Chr.n>>
    /\ Len(lexed) >= 1
    /\ ReturnedSymbol(1, Chr.LF)

\* The scanner's _input after the i-th direct call of lex().
After(i) == IF i < Len(lexed) THEN lexed[i + 1].before ELSE input

\* The first direct call of lex() was at a '[' and returned a token.
ClassLexed ==
    /\ Len(lexed) >= 1
    /\ text # <<>>
    /\ text[1] = Chr.lbracket
    /\ lexed[1].raised = ""

\* The text begins with '[^'.
InvertedText == Len(text) >= 2 /\ text[2] = Chr.caret

\* The index of the first byte of the class body and of the closing ']'.
BodyStart == IF InvertedText THEN 3 ELSE 2

ClassEnd == Len(text) - Len(After(1))

\* The set S the class was built from: the token's set, or what the
\* token's set leaves of the alphabet when the class is inverted.
ClassMembers ==
    IF InvertedText THEN TextSIGMA \ lexed[1].token.char_class
    ELSE lexed[1].token.char_class

\* The token of '[^' b ']' holds the alphabet less the token of '[' b ']',
\* for a body b that does not begin with '^'.
Complemented ==
    (ClassLexed /\ InvertedText /\ text[3] # Chr.caret) =>
        \A r \in {lex(<<Chr.lbracket>> \o SubSeq(text, 3, Len(text)))} :
            r.raised = "" => lexed[1].token.char_class = TextSIGMA \ r.token.char_class

\* A ']' that is the first byte of the body and a '^' anywhere in the body
\* are members.
BracketAndCaretLiteral ==
    ClassLexed =>
        /\ (text[BodyStart] = Chr.rbracket /\ BodyStart < ClassEnd) => Chr.rbracket \in ClassMembers
        /\ \A i \in BodyStart..(ClassEnd - 1) : text[i] = Chr.caret => Chr.caret \in ClassMembers

\* C19 as claimed: the inverted class is the complement of the plain one,
\* and a leading ']', a later '^', and a backslash with the byte after it
\* are members of the class.
C19_ClassLiterals ==
    /\ Complemented
    /\ BracketAndCaretLiteral
    /\ ClassLexed =>
          \A i \in BodyStart..(ClassEnd - 1) :
              text[i] = Chr.backslash =>
                  /\ Chr.backslash \in ClassMembers
                  /\ i + 1 < ClassEnd
                  /\ text[i + 1] \in ClassMembers

\* C19 as amended: the same, but the byte after a backslash is read as
\* after any other member: it is a member of the class when it is a byte
\* of the alphabet other than '-', a ']' closes the class, and a '-' with
\* a byte after it makes the range that starts at the backslash.
C19_BackslashPlain ==
    /\ Complemented
    /\ BracketAndCaretLiteral
    /\ ClassLexed =>
          \A i \in BodyStart..(ClassEnd - 1) :
              text[i] = Chr.backslash =>
                  /\ Chr.backslash \in ClassMembers
                  /\ (i + 1 < ClassEnd /\ text[i + 1] \in TextSIGMA \ {Chr.hyphen}) =>
                        text[i + 1] \in ClassMembers
                  /\ text[i + 1] = Chr.rbracket => ClassEnd = i + 1
                  /\ (/\ i + 2 < ClassEnd
                      /\ text[i + 1] = Chr.hyphen
                      /\ text[i + 2] \in TextSIGMA \ {Chr.hyphen}) =>
                        Chr.backslash .. text[i + 2] \subseteq ClassMembers

\* C19 witness: the inverted class of a backslash and a '^'.
C19_Witness ==
    /\ text = <<Chr.lbracket, Chr.caret, Chr.backslash, Chr.caret, Chr.rbracket>>
    /\ ClassLexed
    /\ lexed[1].token.char_class = TextSIGMA \ {Chr.backslash, Chr.caret}

\* The text is a character class with a closing ']': a '[', the body and
\* the first ']' that is not the first byte of the body.
ClosedClassText ==
    /\ text # <<>>
    /\ text[1] = Chr.lbracket
    /\ \E k \in (BodyStart + 1)..Len(text) : text[k] = Chr.rbracket

Close == Min({k \in (BodyStart + 1)..Len(text) : text[k] = Chr.rbracket})

\* The hyphen at index i of the text stands between a literal byte of the
\* body and a byte that is not the closing ']'.
RECURSIVE RangeHyphen(_)
RangeHyphen(i) ==
    /\ text[i] = Chr.hyphen
    /\ BodyStart < i
    /\ i + 1 < Close
    /\ ~RangeHyphen(i - 1)

\* C20: in a class, a hyphen between a literal byte x and a byte y that is
\* not the closing ']' makes the range x..y part of the class, or the error
\* 'invalid range end' when y is below x; a hyphen that is the first byte
\* of the body or the last one before the closing ']' is a member.  (For
\* x and y of the alphabet, and y not a hyphen itself.)
C20_Ranges ==
    (ClosedClassText /\ Len(lexed) >= 1) =>
        \A i \in BodyStart..(Close - 1) :
            /\ (/\ RangeHyphen(i)
                /\ text[i - 1] \in TextSIGMA
                /\ text[i + 1] \in TextSIGMA \ {Chr.hyphen}) =>
                  IF text[i + 1] >= text[i - 1]
                  THEN lexed[1].raised = "" => text[i - 1] .. text[i + 1] \subseteq ClassMembers
                  ELSE lexed[1].raised = "invalid range end"
            /\ (text[i] = Chr.hyphen /\ (i = BodyStart \/ i = Close - 1) /\ lexed[1].raised = "") =>
                  Chr.hyphen \in ClassMembers

\* ------------------------------------------------------------ C21 .. C27
\* The bytes the i-th direct call of lex() consumed.
Consumed(i) == SubSeq(lexed[i].before, 1, Len(lexed[i].before) - Len(After(i)))

\* C21: a call of lex() that consumes a byte outside the alphabet raises
\* an error and returns no token.
C21_OutsideAlphabetRejected ==
    \A i \in 1..Len(lexed) :
        (\E k \in 1..Len(Consumed(i)) : Consumed(i)[k] \notin TextSIGMA) =>
            lexed[i].raised # ""

\* C22: a token lex() returns after consuming a newline is an EOL token,
\* and the newline is all the call consumed.
C22_NewlineEndsRule ==
    \A i \in 1..Len(lexed) :
        (lexed[i].raised = "" /\ Chr.LF \in Range(Consumed(i))) =>
            /\ Consumed(i) = <<Chr.LF>>
            /\ lexed[i].token.category = Token.EOL

\* The tables have been built from the DFA minimized once.
TablesBuilt == stage = "tables"

\* index numbers the reachable states of the DFA d from 0 without gap or
\* repeat, the initial state first, and the two tables hold d under it.
Mirrors(d, index) ==
    /\ {index[s] : s \in DOMAIN index} = 0..(Len(tables.accepting) - 1)
    /\ \A s, t \in DOMAIN index : index[s] = index[t] => s = t
    /\ index[d.initial] = 0
    /\ \A s \in DOMAIN index :
          /\ tables.accepting[index[s] + 1] =
                (IF d.accepting[s] = None THEN 0 ELSE d.accepting[s])
          /\ \A c \in 0..(NUM_SYMBOLS - 1) :
                tables.transitions[index[s] + 1][c] =
                    (IF c \in DOMAIN d.transitions[s] THEN index[d.transitions[s][c]] ELSE -1)

\* C23: the tables mirror the DFA: its reachable states have the indices
\* 0..|Q|-1 without gap or repeat, the initial state has index 0,
\* accepting[i] is the rule ID of state i or 0, and transitions[i][c] is
\* the index of the c-target of state i or -1.
C23_TablesMirrorDFA ==
    TablesBuilt =>
        /\ Len(tables.accepting) = Len(tables.transitions)
        /\ Len(tables.accepting) = Cardinality(DFAStates(dfas[2]))
        /\ \E index \in [DFAStates(dfas[2]) -> 0..(Len(tables.accepting) - 1)] :
              Mirrors(dfas[2], index)

\* C23 witness: tables of three states or more with a dead entry, an
\* accepting state and a move to a state other than state 0.
C23_Witness ==
    /\ TablesBuilt
    /\ Len(tables.accepting) >= 3
    /\ \E i \in 1..Len(tables.accepting) :
          /\ tables.accepting[i] > 0
          /\ \E c, e \in 0..(NUM_SYMBOLS - 1) :
                tables.transitions[i][c] = -1 /\ tables.transitions[i][e] > 0

\* C25: what a call of s.epsilon_closure() returns is the set of the states
\* reachable from s by epsilon transitions in the graph as it is at the
\* call, whatever add_transition and epsilon_closure calls came before.
C25_ClosureIsCurrent ==
    call.op = "epsilon_closure" =>
        call.to = epsilon_closure_loop(nfaStates, {call.self}, <<call.self>>)

\* The indices of the rows of the two tables.
StateIndices == 0..(Len(tables.accepting) - 1)

\* C26: whenever pylex() is about to read accepting[curstate] (at the top
\* of the do loop's body and at each test of the while loop and of the
\* final if) or transitions[curstate][c], curstate is the index of a row
\* of the tables and c a symbol index.
C26_IndicesInBounds ==
    /\ pc = "loop" =>
          /\ curstate \in StateIndices
          /\ file # <<>> => Head(file) \in 0..(NUM_SYMBOLS - 1)
    /\ pc = "backtrack" => curstate \in StateIndices

\* C27: the DFA D.minimized() returns and every DFA Hopcroft(D)() can
\* return are isomorphic, for the DFA D that to_dfa() returned.
C27_MinimizersAgree ==
    (stage = "dfa" /\ Len(dfas) >= 2) =>
        \A h \in Hopcroft__call__(dfas[1]) : Isomorphic(dfas[2], h)

\* The NFAState object s has the accepting ID, the transitions and the
\* number it had; the same for the DFAState object s.
NFAStateKept(s) ==
    /\ nfaStates'.accepting[s] = nfaStates.accepting[s]
    /\ {e \in nfaStates'.edges : e[1] = s} = {e \in nfaStates.edges : e[1] = s}
    /\ nfaStates'.number[s] = nfaStates.number[s]

DFAStateKept(s) ==
    /\ dfaStates'.accepting[s] = dfaStates.accepting[s]
    /\ dfaStates'.transitions[s] = dfaStates.transitions[s]
    /\ dfaStates'.number[s] = dfaStates.number[s]

\* C24: no stage changes the accepting ID, the transitions or the number
\* of a state that was there when the stage began: to_dfa() of no NFA
\* state, minimized() of no state of the DFA it is called on, and the
\* making of the tables of no state of the minimized DFA.
C24_UpstreamKept ==
    [][/\ \A s \in 1..nfaStates.n : NFAStateKept(s)
       /\ \A s \in 1..dfaStates.n : DFAStateKept(s)]_vars

\* C24 witness: the tables are made; to_dfa() has left memos in the NFA
\* states, and minimized() has made a DFA smaller than the one it read.
C24_Witness ==
    /\ stage = "heap_tables"
    /\ \E s \in 1..nfaStates.n : nfaStates.memo[s] # {}
    /\ Len(tables.accepting) >= 2
    /\ dfaStates.n > 2 * Len(tables.accepting)
====
